---- MODULE Spec2Model ----
(***************************************************************************)
(* The jnode SQL message store of gossiped: the relational area store      *)
(* (SQLArea), the process-wide message count cache and the unread display. *)
(* Text is a sequence of one-character tokens; CR, LF and SOH stand for    *)
(* "\r", "\n" and "\x01".                                                  *)
(***************************************************************************)
EXTENDS Integers, Sequences, FiniteSets, TLC

\* ------------------------------------------------------------------ bounds

\* Rows inserted into the database in one behaviour (echomail plus netmail).
MaxRows == 3

\* The largest position handed to SetLast.
MaxLast == 1

\* Netmails saved in a behaviour that exercises route resolution.
MaxRouted == 2

\* Messages saved in a behaviour that exercises the sorting of the area list.
MaxSorted == 2

\* The longest body handed to the line-ending functions, in characters.
MaxBody == 4

\* The most rows of an echoarea table that areas are loaded from.
MaxAreas == 3

\* The most spaces and letters at the head of a line handed to IsQuoteBasic.
MaxPad == 12

\* The most letters at the head of a line handed to IsQuoteEnhanced.
MaxLetters == 4

\* The longest run of '>' in a line handed to GetQuoteString.
MaxRun == 41

\* The largest cursor position handed to ShouldEliminateQuote.
MaxCursor == 6

\* The longest text after the marker of a line handed to WordWrapQuoteAware.
MaxContent == 5

\* The most lines before the line handed to the context check.
MaxPrev == 3

\* The most messages saved while the message list is read.
MaxListed == 2

\* The most messages saved before and by the save that runs beside a refresh.
MaxRaced == 2

\* ------------------------------------------------------- program constants

EchoAreaTypeNetmail == 0
EchoAreaTypeBad == 1
EchoAreaTypeDupe == 2
EchoAreaTypeEcho == 3

\* A uint32 is held as two 16-bit limbs (hi, lo), so that GetCount()-GetLast()
\* wraps exactly as the unsigned 32-bit subtraction of the program does.
Limb == 65536

CR == "CR"
LF == "LF"
SOH == "SOH"

\* ------------------------------------------------------------------ uint32

U32(n) == [hi |-> n \div Limb, lo |-> n % Limb]

\* a - b on uint32, wrapping
Sub32(a, b) ==
  LET lo == a.lo - b.lo
      borrow == IF lo < 0 THEN 1 ELSE 0
  IN [hi |-> (a.hi - b.hi - borrow) % Limb, lo |-> lo % Limb]

\* a > b on uint32
Gt32(a, b) == a.hi > b.hi \/ (a.hi = b.hi /\ a.lo > b.lo)

\* ------------------------------------------------------------ text helpers

\* The sequences over S of length up to n.
RECURSIVE SeqsUpTo(_, _)
SeqsUpTo(S, n) ==
  IF n = 0 THEN {<<>>}
  ELSE LET shorter == SeqsUpTo(S, n - 1)
       IN shorter \cup {Append(t, c) : t \in shorter, c \in S}

ReplaceAll(s, old, new) == [i \in 1..Len(s) |-> IF s[i] = old THEN new ELSE s[i]]

RECURSIVE TrimRight(_, _)
TrimRight(s, c) ==
  IF Len(s) > 0 /\ s[Len(s)] = c THEN TrimRight(SubSeq(s, 1, Len(s) - 1), c) ELSE s

\* A line feed is appended to whatever the replacement leaves.
NormalizeForStorage_NoTrim(body) == ReplaceAll(body, CR, LF) \o <<LF>>

NormalizeForStorage(body) == TrimRight(ReplaceAll(body, CR, LF), LF) \o <<LF>>

NormalizeFromStorage(body) == ReplaceAll(body, LF, CR)

\* strings.Split(s, sep): the pieces between separators (always at least one)
RECURSIVE Split(_, _)
Split(s, sep) ==
  IF \A i \in 1..Len(s) : s[i] # sep THEN <<s>>
  ELSE LET k == CHOOSE i \in 1..Len(s) : s[i] = sep /\ \A j \in 1..(i - 1) : s[j] # sep
       IN <<SubSeq(s, 1, k - 1)>> \o Split(SubSeq(s, k + 1, Len(s)), sep)

RECURSIVE Join(_, _)
Join(lines, sep) ==
  IF Len(lines) = 0 THEN <<>>
  ELSE IF Len(lines) = 1 THEN lines[1]
  ELSE lines[1] \o <<sep>> \o Join(Tail(lines), sep)

RECURSIVE SelectLines(_, _)
SelectLines(lines, kludge) ==
  IF Len(lines) = 0 THEN <<>>
  ELSE LET isK == Len(lines[1]) > 0 /\ lines[1][1] = SOH
       IN (IF isK = kludge THEN <<lines[1]>> ELSE <<>>) \o SelectLines(Tail(lines), kludge)

\* ----------------------------------------------------------- configuration

\* config.Config.Chrs.Default and .JnodeDefault (README, "Character Set Handling")
ChrsDefault == <<"UTF-8", "4">>
JnodeDefault == "CP866 2"

\* --------------------------------------------------------------- addresses

\* FidoAddr.String(): zone:net/node, the point segment omitted when zero
AddrString(a) ==
  IF a.Point = 0 THEN <<a.Zone, a.Net, a.Node>> ELSE <<a.Zone, a.Net, a.Node, a.Point>>

\* types.AddrFromString: <<addr>>, or <<>> (nil) when the text is no address
AddrFromString(s) ==
  IF Len(s) = 3 THEN << [Zone |-> s[1], Net |-> s[2], Node |-> s[3], Point |-> 0] >>
  ELSE IF Len(s) = 4 THEN << [Zone |-> s[1], Net |-> s[2], Node |-> s[3], Point |-> s[4]] >>
  ELSE <<>>

ZeroAddr == [Zone |-> 0, Net |-> 0, Node |-> 0, Point |-> 0]

\* ------------------------------------------- tables the store only consumes

EchoareaTable ==
  << [ID |-> 1, Name |-> "ECHO.ONE"], [ID |-> 2, Name |-> "ECHO.TWO"] >>

LinksTable ==
  { [ID |-> 1, FtnAddress |-> <<2, 5020, 1>>], [ID |-> 2, FtnAddress |-> <<2, 5020, 2>>],
    [ID |-> 3, FtnAddress |-> <<2, 5020, 1, 3>>] }

SubscriptionTable ==
  { [LinkID |-> 1, EchoareaID |-> 1], [LinkID |-> 2, EchoareaID |-> 1] }

\* The wildcard of an address column; addresses are kept in the form AddrString gives.
AnyAddr == <<"*">>

RoutingTable ==
  { [ID |-> 1, Nice |-> 10, FromName |-> "*", ToName |-> "*", FromAddress |-> AnyAddr,
     ToAddress |-> AnyAddr, Subject |-> "s3", RouteVia |-> 2],
    [ID |-> 2, Nice |-> 5, FromName |-> "*", ToName |-> "Bob", FromAddress |-> AnyAddr,
     ToAddress |-> AnyAddr, Subject |-> "s3", RouteVia |-> 1],
    [ID |-> 3, Nice |-> 20, FromName |-> "Carol", ToName |-> "*", FromAddress |-> AnyAddr,
     ToAddress |-> AnyAddr, Subject |-> "*", RouteVia |-> 3],
    [ID |-> 4, Nice |-> 1, FromName |-> "Alice", ToName |-> "*", FromAddress |-> AnyAddr,
     ToAddress |-> <<2, 5020, 8, 1>>, Subject |-> "*", RouteVia |-> 1],
    [ID |-> 5, Nice |-> 0, FromName |-> "*", ToName |-> "*", FromAddress |-> <<2, 5020, 5>>,
     ToAddress |-> AnyAddr, Subject |-> "*", RouteVia |-> 3] }

\* ------------------------------------------------------------------- areas

mapJnodeAreaType(areaName) ==
  CASE areaName = "Netmail" -> EchoAreaTypeNetmail
    [] areaName \in {"BadMail", "Bad"} -> EchoAreaTypeBad
    [] areaName \in {"DupeMail", "Dupe"} -> EchoAreaTypeDupe
    [] OTHER -> EchoAreaTypeEcho

NewSQLArea(echoarea) ==
  [areaID |-> echoarea.ID, areaName |-> echoarea.Name,
   areaType |-> mapJnodeAreaType(echoarea.Name)]

NewSQLNetmailArea ==
  [areaID |-> 0, areaName |-> "Netmail", areaType |-> EchoAreaTypeNetmail]

\* msgapi.Areas after jnodeConfigRead: the echo areas, then the netmail area
loadEchoareas(echoareas) == [i \in 1..Len(echoareas) |-> NewSQLArea(echoareas[i])]
loadNetmailArea == <<NewSQLNetmailArea>>

Areas == loadEchoareas(EchoareaTable) \o loadNetmailArea

AreaIx == 1..Len(Areas)

\* ---------------------------------------------------------- the messages

\* The messages handed to SaveMsg.
Msgs ==
  { [From |-> "Alice", To |-> "Bob", Subject |-> "s1",
     Body |-> <<"a", CR, "b">>, Attrs |-> <<"Loc", "Pvt">>,
     Kludges |-> [k \in {"MSGID:", "CHRS:"} |-> IF k = "MSGID:" THEN "id1" ELSE "UTF-8 4"],
     FromAddr |-> [Zone |-> 2, Net |-> 5020, Node |-> 9, Point |-> 0],
     ToAddr |-> [Zone |-> 2, Net |-> 5020, Node |-> 1, Point |-> 0]],
    [From |-> "Carol", To |-> "All", Subject |-> "s2",
     Body |-> <<"c", LF>>, Attrs |-> <<>>,
     Kludges |-> [k \in {"MSGID:"} |-> "id2"],
     FromAddr |-> [Zone |-> 2, Net |-> 5020, Node |-> 9, Point |-> 0],
     ToAddr |-> [Zone |-> 2, Net |-> 5020, Node |-> 2, Point |-> 7]] }

\* The destinations of the netmails that exercise route resolution: a link, a
\* linked point of a linked node, an unlinked point of a linked node, an unlinked
\* node and a point of it.
RouteDests ==
  { [Zone |-> 2, Net |-> 5020, Node |-> 1, Point |-> 0],
    [Zone |-> 2, Net |-> 5020, Node |-> 1, Point |-> 3],
    [Zone |-> 2, Net |-> 5020, Node |-> 2, Point |-> 7],
    [Zone |-> 2, Net |-> 5020, Node |-> 8, Point |-> 0],
    [Zone |-> 2, Net |-> 5020, Node |-> 8, Point |-> 1] }

\* The netmails handed to SaveMsg to exercise route resolution.
RouteMsgs ==
  { [From |-> f, To |-> t, Subject |-> sub, Body |-> <<"r">>, Attrs |-> <<"Pvt">>,
     Kludges |-> [k \in {"MSGID:"} |-> "id3"],
     FromAddr |-> [Zone |-> 2, Net |-> 5020, Node |-> 9, Point |-> 0], ToAddr |-> d] :
    f \in {"Alice", "Carol"}, t \in {"Bob", "All"}, sub \in {"s1", "s3"}, d \in RouteDests }

\* Positions handed to GetMsg and DelMsg, and those handed to SetLast.
Positions == 0..(MaxRows + 1)
LastPositions == 0..MaxLast

\* ------------------------------------------------------------------- state

VARIABLES
  echomail,          \* table echomail: its rows in ascending id
  netmail,           \* table netmail: its rows in ascending id
  echomailSeq,       \* the last id the echomail table assigned
  netmailSeq,        \* the last id the netmail table assigned
  echomailawait,     \* table echomailawait: the outbound queue
  messageCountCache, \* package variable: echoarea id -> count (empty when nil)
  netmailCountCache, \* package variable
  countCacheValid,   \* package variable
  lastReadPosition,  \* SQLArea.lastReadPosition of each area instance
  messageListValid,  \* SQLArea.messageListValid of each area instance
  messageListCache,  \* SQLArea.messageListCache of each area instance (<<>> when nil)
  calls,             \* a RefreshMessageCounts and a SaveMsg under way: where each is, its locals
  app,               \* App: CurrentArea (an index of msgapi.Areas, 0 when nil), the rows of al
  LastReadDB,        \* whether the lastread store is open (database.LastReadDB != nil)
  lastread,          \* table lastread of the store: its rows in ascending id
  areaOrder,         \* msgapi.Areas as a slice: the area instance at each index
  sortingMode,       \* config.Config.Sorting["areas"] ("" when the key is absent)
  op                 \* the last operation carried out and its outcome

vars ==
  << echomail, netmail, echomailSeq, netmailSeq, echomailawait, messageCountCache,
     netmailCountCache, countCacheValid, lastReadPosition, messageListValid,
     messageListCache, calls, app, LastReadDB, lastread, areaOrder, sortingMode, op >>

dbVars == << echomail, netmail, echomailSeq, netmailSeq, echomailawait >>
cacheVars == << messageCountCache, netmailCountCache, countCacheValid >>
lastVars == << lastReadPosition, LastReadDB, lastread >>
listVars == << areaOrder, sortingMode >>
restVars == << messageListCache, calls, app >>

\* No call is under way: every operation runs from its start to its end.
NoCalls ==
  [refresh |-> [at |-> "idle", counts |-> <<>>, netmailCount |-> 0],
   save |-> [at |-> "idle", area |-> 0],
   overlap |-> FALSE]

\* A failed operation leaves no trace but its name. warned: the operation wrote
\* a warning or an error to the log and went on.
Op(name, area, pos, ok) ==
  IF ok
  THEN [name |-> name, area |-> area, pos |-> pos, ok |-> TRUE, msg |-> <<>>,
        warned |-> FALSE, arg |-> <<>>, result |-> <<>>]
  ELSE [name |-> name, area |-> 0, pos |-> 0, ok |-> FALSE, msg |-> <<>>,
        warned |-> FALSE, arg |-> <<>>, result |-> <<>>]

\* A call of a function that changes nothing, with its argument and its result.
Called(name, arg, result) ==
  [Op(name, 0, 0, TRUE) EXCEPT !.arg = arg, !.result = result]

\* A successful SaveMsg, with the message it was handed.
Saved(a, m, warned) ==
  [Op("SaveMsg", a, 0, TRUE) EXCEPT !.msg = <<m>>, !.warned = warned]

\* ----------------------------------------------------------------- queries

IsNetmail(a) == Areas[a].areaType = EchoAreaTypeNetmail

\* WHERE echoarea_id = ? ORDER BY id ASC
EchoRows(table, areaID) == SelectSeq(table, LAMBDA r : r.EchoareaID = areaID)

\* What the queries read: the two message tables and the count cache.
Store ==
  [echomail |-> echomail, netmail |-> netmail, countCacheValid |-> countCacheValid,
   messageCountCache |-> messageCountCache, netmailCountCache |-> netmailCountCache]

\* The rows an area's queries range over.
AreaRows(s, a) == IF IsNetmail(a) THEN s.netmail ELSE EchoRows(s.echomail, Areas[a].areaID)

\* Offset(int(position - 1)).Limit(1).First(&row): <<row>>, or <<>> for ErrRecordNotFound
RowAtOffset(rows, position) ==
  LET offset == Sub32(U32(position), U32(1))
  IN IF offset.hi = 0 /\ offset.lo < Len(rows) THEN <<rows[offset.lo + 1]>> ELSE <<>>

\* A count query without the GROUP BY: every area gets the table's total.
GetAllEchoareaCounts_Total(table) ==
  [id \in {table[i].EchoareaID : i \in 1..Len(table)} |-> Len(table)]

\* database.GetAllEchoareaCounts: SELECT echoarea_id, COUNT(*) ... GROUP BY echoarea_id
GetAllEchoareaCounts(table) ==
  [id \in {table[i].EchoareaID : i \in 1..Len(table)} |-> Len(EchoRows(table, id))]

\* database.GetNetmailCount
GetNetmailCount(table) == Len(table)

\* The fallback of GetCount: COUNT(*) of the area's own rows
DirectCount(s, a) ==
  IF IsNetmail(a) THEN Len(s.netmail) ELSE Len(EchoRows(s.echomail, Areas[a].areaID))

GetCount(s, a) ==
  IF s.countCacheValid
  THEN IF IsNetmail(a) THEN s.netmailCountCache
       ELSE IF Areas[a].areaID \in DOMAIN s.messageCountCache
            THEN s.messageCountCache[Areas[a].areaID]
            ELSE 0
  ELSE DirectCount(s, a)

\* config.Config.Username: the one user the application reads and writes for
Username == "sysop"

\* Where("username = ? AND area_name = ?").First: the rows of the pair, by id
LastReadRows(table, areaName) ==
  SelectSeq(table, LAMBDA r : r.Username = Username /\ r.AreaName = areaName)

\* database.GetLastRead: the stored position, 0 when the store has no record
GetLastRead(areaName) ==
  LET rows == LastReadRows(lastread, areaName)
  IN IF Len(rows) = 0 THEN 0 ELSE rows[1].LastReadMsg

\* database.GetHighRead: the stored high-water mark, 0 when there is no record
GetHighRead(areaName) ==
  LET rows == LastReadRows(lastread, areaName)
  IN IF Len(rows) = 0 THEN 0 ELSE rows[1].HighReadMsg

\* GetLast: the store's answer, the shadow value when the store is not
\* configured or its query fails
GetLastWhen(a, readFails) ==
  IF LastReadDB
  THEN IF readFails THEN lastReadPosition[a] ELSE GetLastRead(Areas[a].areaName)
  ELSE lastReadPosition[a]

\* GetLast when the store answers
GetLast(a) == GetLastWhen(a, FALSE)

\* -------------------------------------------------------------- attributes

\* The attribute names in the order parseNetmailAttrs tests them, with their bits.
AttrBits ==
  << <<"Loc", 256>>, <<"Pvt", 1>>, <<"Cra", 2>>, <<"Rcv", 4>>, <<"Snt", 8>>,
     <<"Att", 16>>, <<"Fwd", 32>>, <<"K/s", 128>>, <<"Hld", 512>> >>

HasBit(attr, bit) == (attr \div bit) % 2 = 1

parseNetmailAttrs(attr) ==
  LET set == SelectSeq(AttrBits, LAMBDA e : HasBit(attr, e[2]))
  IN [i \in 1..Len(set) |-> set[i][1]]

\* result |= bit for each known name: the sum of the bits of the names present
convertAttrsToInt(attrs) ==
  LET present == SelectSeq(AttrBits, LAMBDA e : \E i \in 1..Len(attrs) : attrs[i] = e[1])
      sum[n \in 0..Len(present)] == IF n = 0 THEN 0 ELSE sum[n - 1] + present[n][2]
  IN sum[Len(present)]

\* ----------------------------------------------------------- message text

\* Message.MakeBody with the area set: the body in the area's storage line endings
MakeBody(msg) == [msg EXCEPT !.Body = NormalizeForStorage(msg.Body)]

\* The CHRS override of saveEchomailMessage / saveNetmailMessage
OverrideChrs(kludges) ==
  IF JnodeDefault # ""
  THEN [k \in (DOMAIN kludges \ {"CHRS"}) \cup {"CHRS:"} |->
          IF k = "CHRS:" THEN JnodeDefault ELSE kludges[k]]
  ELSE kludges

\* The orders in which a range over the kludge map can visit its keys.
KeyOrders(keys) ==
  { o \in [1..Cardinality(keys) -> keys] : \A k \in keys : \E i \in DOMAIN o : o[i] = k }

\* messageText: "\x01" + kl + " " + v + "\x0d" for each kludge but MSGID:, then the body
RECURSIVE KludgeBlock(_, _)
KludgeBlock(kludges, order) ==
  IF Len(order) = 0 THEN <<>>
  ELSE (IF order[1] # "MSGID:" THEN <<SOH, order[1], " ", kludges[order[1]], CR>> ELSE <<>>)
       \o KludgeBlock(kludges, Tail(order))

MessageText(msg, kludges, order) == KludgeBlock(kludges, order) \o msg.Body

MsgIDOf(kludges) == IF "MSGID:" \in DOMAIN kludges THEN kludges["MSGID:"] ELSE ""

\* Message.ParseRawNoDecoding: the kludge lines of the raw text leave the body
\* and fill Kludges
ParseRawNoDecoding(msg) ==
  LET lines == Split(msg.Body, CR)
      kl == SelectLines(lines, TRUE)
      well == SelectSeq(kl, LAMBDA l : Len(l) >= 4)
  IN [msg EXCEPT !.Body = Join(SelectLines(lines, FALSE), CR),
                 !.Kludges = [k \in {well[i][2] : i \in 1..Len(well)} |->
                                (CHOOSE l \in {well[i] : i \in 1..Len(well)} : l[2] = k)[4]]]

\* utils.EncodeCharmap: the text re-encoded to the display charset
EncodeCharmap(text, charset) == <<charset, text>>

\* The display charset step that ends getEchomailMessage / getNetmailMessage
ToDisplayCharset(msg) ==
  LET displayCharset == ChrsDefault[1]
  IN IF displayCharset # "UTF-8"
     THEN [msg EXCEPT !.Body = EncodeCharmap(msg.Body, displayCharset),
                      !.From = EncodeCharmap(msg.From, displayCharset),
                      !.To = EncodeCharmap(msg.To, displayCharset),
                      !.Subject = EncodeCharmap(msg.Subject, displayCharset)]
     ELSE msg

\* ------------------------------------------------------------------ GetMsg

AddrOrZero(parsed) == IF Len(parsed) = 0 THEN ZeroAddr ELSE parsed[1]

EchomailToMessage(s, a, position, row) ==
  ToDisplayCharset(ParseRawNoDecoding(
    [Area |-> Areas[a].areaName, MsgNum |-> position, MaxNum |-> GetCount(s, a),
     From |-> row.FromName, To |-> row.ToName, Subject |-> row.Subject,
     Body |-> NormalizeFromStorage(row.Message), Attrs |-> <<>>, Kludges |-> <<>>,
     FromAddr |-> AddrOrZero(AddrFromString(row.FromFtnAddr)), ToAddr |-> ZeroAddr,
     Corrupted |-> Len(AddrFromString(row.FromFtnAddr)) = 0]))

NetmailToMessage(s, a, position, row) ==
  ToDisplayCharset(ParseRawNoDecoding(
    [Area |-> Areas[a].areaName, MsgNum |-> position, MaxNum |-> GetCount(s, a),
     From |-> row.FromName, To |-> row.ToName, Subject |-> row.Subject,
     Body |-> NormalizeFromStorage(row.Text), Attrs |-> parseNetmailAttrs(row.Attr),
     Kludges |-> <<>>,
     FromAddr |-> AddrOrZero(AddrFromString(row.FromAddress)),
     ToAddr |-> AddrOrZero(AddrFromString(row.ToAddress)),
     Corrupted |-> Len(AddrFromString(row.FromAddress)) = 0
                   \/ Len(AddrFromString(row.ToAddress)) = 0]))

\* Mutant: the lookup without its echoarea_id condition.
getEchomailMessage_AnyArea(s, a, position) ==
  LET found == RowAtOffset(s.echomail, position)
  IN IF Len(found) = 0 THEN [msg |-> <<>>, err |-> FALSE]
     ELSE [msg |-> <<EchomailToMessage(s, a, position, found[1])>>, err |-> FALSE]

\* The outcome of a lookup: ErrRecordNotFound is (nil, nil); a found row is converted
getEchomailMessage(s, a, position) ==
  LET found == RowAtOffset(EchoRows(s.echomail, Areas[a].areaID), position)
  IN IF Len(found) = 0 THEN [msg |-> <<>>, err |-> FALSE]
     ELSE [msg |-> <<EchomailToMessage(s, a, position, found[1])>>, err |-> FALSE]

getNetmailMessage(s, a, position) ==
  LET found == RowAtOffset(s.netmail, position)
  IN IF Len(found) = 0 THEN [msg |-> <<>>, err |-> FALSE]
     ELSE [msg |-> <<NetmailToMessage(s, a, position, found[1])>>, err |-> FALSE]

\* Mutant: position 0 goes to the lookup as it is.
GetMsg_ZeroKept(s, a, position) ==
  IF IsNetmail(a) THEN getNetmailMessage(s, a, position)
  ELSE getEchomailMessage(s, a, position)

\* GetMsg(position): [msg |-> <<>> or <<message>>, err |-> whether an error came back]
GetMsg(s, a, position) ==
  LET p == IF position = 0 THEN 1 ELSE position
  IN IF IsNetmail(a) THEN getNetmailMessage(s, a, p) ELSE getEchomailMessage(s, a, p)

\* ----------------------------------------------------------------- routing

\* Where("ftn_address = ?", addr).First(&link): <<link>> or <<>>
LinkByAddress(addr) ==
  LET hit == {l \in LinksTable : l.FtnAddress = addr}
  IN IF hit = {} THEN <<>> ELSE <<CHOOSE l \in hit : \A m \in hit : l.ID <= m.ID>>

\* A match that leaves the subject column out.
RuleMatches_NoSubject(r, msg) ==
  /\ (r.FromAddress = AddrString(msg.FromAddr) \/ r.FromAddress = AnyAddr)
  /\ (r.ToAddress = AddrString(msg.ToAddr) \/ r.ToAddress = AnyAddr)
  /\ (r.FromName = msg.From \/ r.FromName = "*")
  /\ (r.ToName = msg.To \/ r.ToName = "*")

RuleMatches(r, msg) ==
  /\ (r.FromAddress = AddrString(msg.FromAddr) \/ r.FromAddress = AnyAddr)
  /\ (r.ToAddress = AddrString(msg.ToAddr) \/ r.ToAddress = AnyAddr)
  /\ (r.FromName = msg.From \/ r.FromName = "*")
  /\ (r.ToName = msg.To \/ r.ToName = "*")
  /\ (r.Subject = msg.Subject \/ r.Subject = "*")

\* A resolution that consults the routing table before the boss node.
findNetmailRoute_RulesFirst(msg) ==
  LET boss == LinkByAddress(AddrString([msg.ToAddr EXCEPT !.Point = 0]))
      rules == {r \in RoutingTable : RuleMatches(r, msg)}
      first == CHOOSE r \in rules :
                 \A q \in rules : r.Nice < q.Nice \/ (r.Nice = q.Nice /\ r.ID <= q.ID)
  IN IF Len(LinkByAddress(AddrString(msg.ToAddr))) > 0 THEN [via |-> <<>>, err |-> FALSE]
     ELSE IF rules # {} THEN [via |-> <<first.RouteVia>>, err |-> FALSE]
     ELSE IF msg.ToAddr.Point # 0 /\ Len(boss) > 0 THEN [via |-> <<boss[1].ID>>, err |-> FALSE]
     ELSE [via |-> <<>>, err |-> TRUE]

\* A resolution that tries the boss node before the destination itself.
findNetmailRoute_BossFirst(msg) ==
  LET boss == LinkByAddress(AddrString([msg.ToAddr EXCEPT !.Point = 0]))
      rules == {r \in RoutingTable : RuleMatches(r, msg)}
      first == CHOOSE r \in rules :
                 \A q \in rules : r.Nice < q.Nice \/ (r.Nice = q.Nice /\ r.ID <= q.ID)
  IN IF msg.ToAddr.Point # 0 /\ Len(boss) > 0 THEN [via |-> <<boss[1].ID>>, err |-> FALSE]
     ELSE IF Len(LinkByAddress(AddrString(msg.ToAddr))) > 0 THEN [via |-> <<>>, err |-> FALSE]
     ELSE IF rules # {} THEN [via |-> <<first.RouteVia>>, err |-> FALSE]
     ELSE [via |-> <<>>, err |-> TRUE]

\* findNetmailRoute: [via |-> <<>> (nil) or <<link id>>, err |-> no route found]
findNetmailRoute(msg) ==
  LET destAddr == AddrString(msg.ToAddr)
      boss == LinkByAddress(AddrString([msg.ToAddr EXCEPT !.Point = 0]))
      rules == {r \in RoutingTable : RuleMatches(r, msg)}
      first == CHOOSE r \in rules :
                 \A q \in rules : r.Nice < q.Nice \/ (r.Nice = q.Nice /\ r.ID <= q.ID)
  IN IF Len(LinkByAddress(destAddr)) > 0 THEN [via |-> <<>>, err |-> FALSE]
     ELSE IF msg.ToAddr.Point # 0 /\ Len(boss) > 0 THEN [via |-> <<boss[1].ID>>, err |-> FALSE]
     ELSE IF rules # {} THEN [via |-> <<first.RouteVia>>, err |-> FALSE]
     ELSE [via |-> <<>>, err |-> TRUE]

\* ------------------------------------------------------------- count cache

\* An increment that bumps the netmail counter together with the area's counter.
IncrementMessageCount_BumpsBoth(cache, areaID, isNetmail) ==
  IF ~cache.valid THEN cache
  ELSE [cache EXCEPT !.netmail = @ + 1,
                     !.counts = IF isNetmail THEN @
                                ELSE [id \in DOMAIN @ \cup {areaID} |->
                                        IF id \in DOMAIN @ /\ id # areaID THEN @[id]
                                        ELSE IF id \in DOMAIN @ THEN @[id] + 1 ELSE 1]]

\* An increment that does not look at the validity flag.
IncrementMessageCount_NoGuard(cache, areaID, isNetmail) ==
  IF isNetmail THEN [cache EXCEPT !.netmail = @ + 1]
  ELSE [cache EXCEPT !.counts =
          [id \in DOMAIN cache.counts \cup {areaID} |->
             IF id = areaID
             THEN (IF areaID \in DOMAIN cache.counts THEN cache.counts[areaID] ELSE 0) + 1
             ELSE cache.counts[id]]]

\* IncrementMessageCount on the cache [valid, counts, netmail]
IncrementMessageCount(cache, areaID, isNetmail) ==
  IF ~cache.valid THEN cache
  ELSE IF isNetmail THEN [cache EXCEPT !.netmail = @ + 1]
  ELSE [cache EXCEPT !.counts =
          [id \in DOMAIN cache.counts \cup {areaID} |->
             IF id = areaID
             THEN (IF areaID \in DOMAIN cache.counts THEN cache.counts[areaID] ELSE 0) + 1
             ELSE cache.counts[id]]]

Cache == [valid |-> countCacheValid, counts |-> messageCountCache, netmail |-> netmailCountCache]

SetCache(c) ==
  /\ countCacheValid' = c.valid
  /\ messageCountCache' = c.counts
  /\ netmailCountCache' = c.netmail

\* RefreshMessageCounts: both queries, then the three assignments; an error of
\* either query returns before any assignment
RefreshMessageCounts ==
  \E fails \in BOOLEAN :
    /\ IF fails
       THEN UNCHANGED cacheVars
       ELSE SetCache([valid |-> TRUE, counts |-> GetAllEchoareaCounts(echomail),
                      netmail |-> GetNetmailCount(netmail)])
    /\ op' = Op("RefreshMessageCounts", 0, 0, ~fails)
    /\ UNCHANGED << dbVars, lastVars, listVars, messageListValid, restVars >>

InvalidateMessageCounts ==
  /\ SetCache([valid |-> FALSE, counts |-> <<>>, netmail |-> 0])
  /\ op' = Op("InvalidateMessageCounts", 0, 0, TRUE)
  /\ UNCHANGED << dbVars, lastVars, listVars, messageListValid, restVars >>

\* ------------------------------------------------------------------ SaveMsg

\* A fan-out that reads the subscriptions without the area condition.
AwaitingEntries_AllAreas(areaID, echomailID) ==
  {[LinkID |-> sub.LinkID, EchomailID |-> echomailID] : sub \in SubscriptionTable}

\* queueEchomailForSubscribers: one echomailawait row per subscription of the area
AwaitingEntries(areaID, echomailID) ==
  { [LinkID |-> sub.LinkID, EchomailID |-> echomailID] :
      sub \in {x \in SubscriptionTable : x.EchoareaID = areaID} }

EchomailRow(a, id, msg, kludges, order) ==
  [ID |-> id, EchoareaID |-> Areas[a].areaID, FromName |-> msg.From, ToName |-> msg.To,
   FromFtnAddr |-> AddrString(msg.FromAddr), Subject |-> msg.Subject,
   Message |-> MessageText(msg, kludges, order), MsgID |-> MsgIDOf(kludges)]

\* Column attr is declared with default:256: a zero value is not written on
\* create and the row takes the default.
NetmailAttrDefault == 256

AttrColumn(attr) == IF attr = 0 THEN NetmailAttrDefault ELSE attr

NetmailRow(id, msg, kludges, order, routeVia) ==
  [ID |-> id, FromName |-> msg.From, ToName |-> msg.To,
   FromAddress |-> AddrString(msg.FromAddr), ToAddress |-> AddrString(msg.ToAddr),
   Subject |-> msg.Subject, Text |-> MessageText(msg, kludges, order),
   RouteVia |-> routeVia, Send |-> FALSE,
   Attr |-> AttrColumn(convertAttrsToInt(msg.Attrs))]

\* A save that returns the fan-out's error.
saveEchomailMessage_FailsUnqueued(a, m) ==
  \E createFails \in BOOLEAN, queueFails \in BOOLEAN :
    LET msg == MakeBody(m)
        kludges == OverrideChrs(msg.Kludges)
        id == echomailSeq + 1
    IN \E order \in KeyOrders(DOMAIN kludges) :
         IF createFails
         THEN /\ op' = Op("SaveMsg", a, 0, FALSE)
              /\ UNCHANGED << dbVars, cacheVars, lastVars, listVars, messageListValid, restVars >>
         ELSE IF queueFails
         THEN /\ echomail' = Append(echomail, EchomailRow(a, id, msg, kludges, order))
              /\ echomailSeq' = id
              /\ op' = Op("SaveMsg", a, 0, FALSE)
              /\ UNCHANGED << netmail, netmailSeq, echomailawait, cacheVars, lastVars, listVars,
                              messageListValid, restVars >>
         ELSE /\ echomail' = Append(echomail, EchomailRow(a, id, msg, kludges, order))
              /\ echomailSeq' = id
              /\ echomailawait' = echomailawait \cup AwaitingEntries(Areas[a].areaID, id)
              /\ messageListValid' = [messageListValid EXCEPT ![a] = FALSE]
              /\ UNCHANGED restVars
              /\ SetCache(IncrementMessageCount(Cache, Areas[a].areaID, FALSE))
              /\ op' = Saved(a, m, FALSE)
              /\ UNCHANGED << netmail, netmailSeq, lastVars, listVars >>

saveEchomailMessage(a, m) ==
  \E createFails \in BOOLEAN, queueFails \in BOOLEAN :
    LET msg == MakeBody(m)
        kludges == OverrideChrs(msg.Kludges)
        id == echomailSeq + 1
    IN \E order \in KeyOrders(DOMAIN kludges) :
         IF createFails
         THEN /\ op' = Op("SaveMsg", a, 0, FALSE)
              /\ UNCHANGED << dbVars, cacheVars, lastVars, listVars, messageListValid, restVars >>
         ELSE /\ echomail' = Append(echomail, EchomailRow(a, id, msg, kludges, order))
              /\ echomailSeq' = id
              /\ echomailawait' =
                   IF queueFails THEN echomailawait
                   ELSE echomailawait \cup AwaitingEntries(Areas[a].areaID, id)
              /\ messageListValid' = [messageListValid EXCEPT ![a] = FALSE]
              /\ UNCHANGED restVars
              /\ SetCache(IncrementMessageCount(Cache, Areas[a].areaID, FALSE))
              /\ op' = Saved(a, m, queueFails)
              /\ UNCHANGED << netmail, netmailSeq, lastVars, listVars >>

\* A save that gives up when no route is found.
saveNetmailMessage_FailsUnrouted(a, m) ==
  \E createFails \in BOOLEAN :
    LET msg == MakeBody(m)
        kludges == OverrideChrs(msg.Kludges)
        route == findNetmailRoute(msg)
        id == netmailSeq + 1
    IN \E order \in KeyOrders(DOMAIN kludges) :
         IF createFails \/ route.err
         THEN /\ op' = Op("SaveMsg", a, 0, FALSE)
              /\ UNCHANGED << dbVars, cacheVars, lastVars, listVars, messageListValid, restVars >>
         ELSE /\ netmail' = Append(netmail, NetmailRow(id, msg, kludges, order, route.via))
              /\ netmailSeq' = id
              /\ messageListValid' = [messageListValid EXCEPT ![a] = FALSE]
              /\ UNCHANGED restVars
              /\ SetCache(IncrementMessageCount(Cache, 0, TRUE))
              /\ op' = Saved(a, m, route.err)
              /\ UNCHANGED << echomail, echomailSeq, echomailawait, lastVars, listVars >>

saveNetmailMessage(a, m) ==
  \E createFails \in BOOLEAN :
    LET msg == MakeBody(m)
        kludges == OverrideChrs(msg.Kludges)
        route == findNetmailRoute(msg)
        id == netmailSeq + 1
    IN \E order \in KeyOrders(DOMAIN kludges) :
         IF createFails
         THEN /\ op' = Op("SaveMsg", a, 0, FALSE)
              /\ UNCHANGED << dbVars, cacheVars, lastVars, listVars, messageListValid, restVars >>
         ELSE /\ netmail' = Append(netmail, NetmailRow(id, msg, kludges, order, route.via))
              /\ netmailSeq' = id
              /\ messageListValid' = [messageListValid EXCEPT ![a] = FALSE]
              /\ UNCHANGED restVars
              /\ SetCache(IncrementMessageCount(Cache, 0, TRUE))
              /\ op' = Saved(a, m, route.err)
              /\ UNCHANGED << echomail, echomailSeq, echomailawait, lastVars, listVars >>

SaveMsg(a, m) ==
  /\ echomailSeq + netmailSeq < MaxRows
  /\ IF IsNetmail(a) THEN saveNetmailMessage(a, m) ELSE saveEchomailMessage(a, m)

\* ------------------------------------------------------------------- DelMsg

\* Mutant: the delete takes the rows from that key on (id >= ? for id = ?).
DeleteByID_FromID(table, id) == SelectSeq(table, LAMBDA r : r.ID < id)

\* db.Delete(&row): the row of that primary key leaves the table
DeleteByID(table, id) == SelectSeq(table, LAMBDA r : r.ID # id)

deleteEchomailMessage(a, position) ==
  LET found == RowAtOffset(EchoRows(echomail, Areas[a].areaID), position)
  IN IF Len(found) = 0
     THEN /\ op' = Op("DelMsg", a, position, FALSE)
          /\ UNCHANGED << dbVars, cacheVars, lastVars, listVars, messageListValid, restVars >>
     ELSE /\ echomail' = DeleteByID(echomail, found[1].ID)
          /\ messageListValid' = [messageListValid EXCEPT ![a] = FALSE]
          /\ UNCHANGED restVars
          /\ op' = Op("DelMsg", a, position, TRUE)
          /\ UNCHANGED << netmail, echomailSeq, netmailSeq, echomailawait, cacheVars,
                          lastVars, listVars >>

deleteNetmailMessage(a, position) ==
  LET found == RowAtOffset(netmail, position)
  IN IF Len(found) = 0
     THEN /\ op' = Op("DelMsg", a, position, FALSE)
          /\ UNCHANGED << dbVars, cacheVars, lastVars, listVars, messageListValid, restVars >>
     ELSE /\ netmail' = DeleteByID(netmail, found[1].ID)
          /\ messageListValid' = [messageListValid EXCEPT ![a] = FALSE]
          /\ UNCHANGED restVars
          /\ op' = Op("DelMsg", a, position, TRUE)
          /\ UNCHANGED << echomail, echomailSeq, netmailSeq, echomailawait, cacheVars,
                          lastVars, listVars >>

DelMsg(a, position) ==
  LET p == IF position = 0 THEN 1 ELSE position
  IN IF IsNetmail(a) THEN deleteNetmailMessage(a, p) ELSE deleteEchomailMessage(a, p)

\* ----------------------------------------------------------- Init, SetLast

AreaInit(a) ==
  /\ lastReadPosition' = [lastReadPosition EXCEPT ![a] = 0]
  /\ messageListValid' = [messageListValid EXCEPT ![a] = FALSE]
  /\ UNCHANGED restVars
  /\ op' = Op("Init", a, 0, TRUE)
  /\ UNCHANGED << dbVars, cacheVars, LastReadDB, listVars, lastread >>

\* An upsert that overwrites the high-water mark like the position.
SetLastRead_Overwrite(areaName, position) ==
  IF Len(LastReadRows(lastread, areaName)) > 0
  THEN [i \in DOMAIN lastread |->
          IF lastread[i].Username = Username /\ lastread[i].AreaName = areaName
          THEN [lastread[i] EXCEPT !.LastReadMsg = position, !.HighReadMsg = position]
          ELSE lastread[i]]
  ELSE Append(lastread, [Username |-> Username, AreaName |-> areaName,
                         LastReadMsg |-> position, HighReadMsg |-> position])

\* database.SetLastRead: INSERT ... ON CONFLICT(username, area_name) DO UPDATE,
\* which takes the new position and keeps the larger high_read_msg
SetLastRead(areaName, position) ==
  IF Len(LastReadRows(lastread, areaName)) > 0
  THEN [i \in DOMAIN lastread |->
          IF lastread[i].Username = Username /\ lastread[i].AreaName = areaName
          THEN [lastread[i] EXCEPT !.LastReadMsg = position,
                                   !.HighReadMsg = IF position > @ THEN position ELSE @]
          ELSE lastread[i]]
  ELSE Append(lastread, [Username |-> Username, AreaName |-> areaName,
                         LastReadMsg |-> position, HighReadMsg |-> position])

\* SetLast: the shadow value, then the store if it is configured; an error of
\* the store is logged and the call returns as usual
SetLast(a, position) ==
  \E writeFails \in BOOLEAN :
    /\ lastReadPosition' = [lastReadPosition EXCEPT ![a] = position]
    /\ lastread' = IF LastReadDB /\ ~writeFails
                   THEN SetLastRead(Areas[a].areaName, position)
                   ELSE lastread
    /\ op' = [Op("SetLast", a, position, TRUE) EXCEPT !.warned = LastReadDB /\ writeFails]
    /\ UNCHANGED << dbVars, cacheVars, LastReadDB, listVars, messageListValid, restVars >>

\* ----------------------------------------------------------- specification

\* The state after jnodeConfigRead on an empty message base: the count cache is
\* valid if the refresh of loadEchoareas succeeded, and every area went through
\* Init.
InitStore ==
  /\ echomail = <<>>
  /\ netmail = <<>>
  /\ echomailSeq = 0
  /\ netmailSeq = 0
  /\ echomailawait = {}
  /\ messageCountCache = <<>>
  /\ netmailCountCache = 0
  /\ countCacheValid \in BOOLEAN
  /\ lastReadPosition = [a \in AreaIx |-> 0]
  /\ messageListValid = [a \in AreaIx |-> FALSE]
  /\ messageListCache = [a \in AreaIx |-> <<>>]
  /\ calls = NoCalls
  /\ app = [CurrentArea |-> 0, al |-> <<>>]
  /\ lastread = <<>>
  /\ areaOrder = [i \in AreaIx |-> i]
  /\ op = Called("jnodeConfigRead", EchoareaTable, Areas)

\* The lastread store is not configured; the configuration names no sorting mode.
Init == InitStore /\ LastReadDB = FALSE /\ sortingMode = ""

\* The lastread store is configured or not (InitLastReadDatabase ran or did not).
InitLast == InitStore /\ LastReadDB \in BOOLEAN /\ sortingMode = ""

Next ==
  \/ \E a \in AreaIx, m \in Msgs : SaveMsg(a, m)
  \/ \E a \in AreaIx, p \in Positions : DelMsg(a, p)
  \/ \E a \in AreaIx, p \in LastPositions : SetLast(a, p)
  \/ \E a \in AreaIx : AreaInit(a)
  \/ RefreshMessageCounts
  \/ InvalidateMessageCounts

Spec == Init /\ [][Next]_vars

\* The operations on the message base alone. SetLast and Init write only the
\* last-read state, which no operation on the message base reads.
NextStore ==
  \/ \E a \in AreaIx, m \in Msgs : SaveMsg(a, m)
  \/ \E a \in AreaIx, p \in Positions : DelMsg(a, p)
  \/ RefreshMessageCounts
  \/ InvalidateMessageCounts

SpecStore == Init /\ [][NextStore]_vars

NetmailIx == CHOOSE a \in AreaIx : IsNetmail(a)

\* The areas the reader opens: the netmail area and one echo area.
ReadAreas == {NetmailIx, CHOOSE a \in AreaIx : ~IsNetmail(a)}

\* The last-read operations alone, with or without the lastread store.
NextLast ==
  \/ \E a \in ReadAreas, p \in LastPositions : SetLast(a, p)
  \/ \E a \in ReadAreas : AreaInit(a)

SpecLast == InitLast /\ [][NextLast]_vars

\* ------------------------------------------------------------ GetMessages

\* loadEchomailList: the headers of the area's rows by id, numbered from 1
loadEchomailList(a) ==
  LET echomails == EchoRows(echomail, Areas[a].areaID)
  IN [i \in 1..Len(echomails) |->
        [MsgNum |-> i, From |-> echomails[i].FromName, To |-> echomails[i].ToName,
         Subject |-> echomails[i].Subject]]

\* loadNetmailList: the headers of the netmail rows by id, numbered from 1
loadNetmailList ==
  [i \in 1..Len(netmail) |->
     [MsgNum |-> i, From |-> netmail[i].FromName, To |-> netmail[i].ToName,
      Subject |-> netmail[i].Subject]]

\* GetMessages: the cached list when it is valid; else the cache is cleared,
\* loaded (a load that fails logs the error and leaves it empty) and marked
\* valid. result: the list returned.
GetMessages(a) ==
  IF messageListValid[a]
  THEN /\ op' = [Op("GetMessages", a, 0, TRUE) EXCEPT !.result = messageListCache[a]]
       /\ UNCHANGED << dbVars, cacheVars, lastVars, listVars, messageListValid,
                       restVars >>
  ELSE \E loadFails \in BOOLEAN :
         LET list == IF loadFails THEN <<>>
                     ELSE IF IsNetmail(a) THEN loadNetmailList ELSE loadEchomailList(a)
         IN /\ messageListCache' = [messageListCache EXCEPT ![a] = list]
            /\ messageListValid' = [messageListValid EXCEPT ![a] = TRUE]
            /\ op' = [Op("GetMessages", a, 0, TRUE) EXCEPT
                        !.result = list, !.warned = loadFails]
            /\ UNCHANGED << dbVars, cacheVars, lastVars, listVars, calls, app >>

\* The operations of one area instance that touch its message list, on the
\* netmail area and on one echo area.
NextList ==
  \/ \E a \in ReadAreas, m \in Msgs :
       echomailSeq + netmailSeq < MaxListed /\ SaveMsg(a, m)
  \/ \E a \in ReadAreas, p \in Positions : DelMsg(a, p)
  \/ \E a \in ReadAreas : AreaInit(a)
  \/ \E a \in ReadAreas : GetMessages(a)

SpecList == Init /\ [][NextList]_vars

\* ---------------------------------- RefreshMessageCounts beside a SaveMsg

\* The package variables of the count cache carry no lock: a refresh and a
\* save that run at once interleave statement by statement. A step of one
\* call while the other is between its first and its last step is recorded in
\* calls.overlap.
Midway(call) == call.at \notin {"idle", "done"}

Refreshing(at, counts, netmailCount) ==
  [calls EXCEPT !.refresh = [at |-> at, counts |-> counts, netmailCount |-> netmailCount],
                !.overlap = @ \/ Midway(calls.save)]

Saving(at, a) ==
  [calls EXCEPT !.save = [at |-> at, area |-> a],
                !.overlap = @ \/ Midway(calls.refresh)]

\* counts, err := database.GetAllEchoareaCounts()
RefreshQueryCounts ==
  \E fails \in BOOLEAN :
    /\ calls.refresh.at = "idle"
    /\ calls' = IF fails THEN Refreshing("done", <<>>, 0)
                ELSE Refreshing("counted", GetAllEchoareaCounts(echomail), 0)
    /\ op' = Op("RefreshMessageCounts", 0, 0, ~fails)
    /\ UNCHANGED << dbVars, cacheVars, lastVars, listVars, messageListValid,
                    messageListCache, app >>

\* netmailCount, err := database.GetNetmailCount()
RefreshQueryNetmail ==
  \E fails \in BOOLEAN :
    /\ calls.refresh.at = "counted"
    /\ calls' = IF fails THEN Refreshing("done", <<>>, 0)
                ELSE Refreshing("queried", calls.refresh.counts, GetNetmailCount(netmail))
    /\ op' = Op("RefreshMessageCounts", 0, 0, ~fails)
    /\ UNCHANGED << dbVars, cacheVars, lastVars, listVars, messageListValid,
                    messageListCache, app >>

\* messageCountCache = counts
RefreshAssignCounts ==
  /\ calls.refresh.at = "queried"
  /\ messageCountCache' = calls.refresh.counts
  /\ calls' = Refreshing("assignedCounts", calls.refresh.counts, calls.refresh.netmailCount)
  /\ op' = Op("RefreshMessageCounts", 0, 0, TRUE)
  /\ UNCHANGED << dbVars, netmailCountCache, countCacheValid, lastVars, listVars,
                  messageListValid, messageListCache, app >>

\* netmailCountCache = netmailCount
RefreshAssignNetmail ==
  /\ calls.refresh.at = "assignedCounts"
  /\ netmailCountCache' = calls.refresh.netmailCount
  /\ calls' = Refreshing("assignedNetmail", calls.refresh.counts, calls.refresh.netmailCount)
  /\ op' = Op("RefreshMessageCounts", 0, 0, TRUE)
  /\ UNCHANGED << dbVars, messageCountCache, countCacheValid, lastVars, listVars,
                  messageListValid, messageListCache, app >>

\* countCacheValid = true, and the call returns
RefreshSetValid ==
  /\ calls.refresh.at = "assignedNetmail"
  /\ countCacheValid' = TRUE
  /\ calls' = Refreshing("done", <<>>, 0)
  /\ op' = Op("RefreshMessageCounts", 0, 0, TRUE)
  /\ UNCHANGED << dbVars, messageCountCache, netmailCountCache, lastVars, listVars,
                  messageListValid, messageListCache, app >>

\* db.Create of the row, and for echomail the fan-out to the subscribers; a
\* failed Create ends the call
SaveCreate(a, m) ==
  \E createFails \in BOOLEAN, queueFails \in BOOLEAN :
    LET msg == MakeBody(m)
        kludges == OverrideChrs(msg.Kludges)
    IN \E order \in KeyOrders(DOMAIN kludges) :
         /\ calls.save.at = "idle"
         /\ echomailSeq + netmailSeq < MaxRaced
         /\ IF createFails
            THEN /\ calls' = Saving("done", 0)
                 /\ op' = Op("SaveMsg", a, 0, FALSE)
                 /\ UNCHANGED dbVars
            ELSE /\ calls' = Saving("created", a)
                 /\ op' = Saved(a, m, ~IsNetmail(a) /\ queueFails)
                 /\ IF IsNetmail(a)
                    THEN /\ netmail' = Append(netmail,
                               NetmailRow(netmailSeq + 1, msg, kludges, order,
                                          findNetmailRoute(msg).via))
                         /\ netmailSeq' = netmailSeq + 1
                         /\ UNCHANGED << echomail, echomailSeq, echomailawait >>
                    ELSE /\ echomail' = Append(echomail,
                               EchomailRow(a, echomailSeq + 1, msg, kludges, order))
                         /\ echomailSeq' = echomailSeq + 1
                         /\ echomailawait' =
                              IF queueFails THEN echomailawait
                              ELSE echomailawait
                                     \cup AwaitingEntries(Areas[a].areaID, echomailSeq + 1)
                         /\ UNCHANGED << netmail, netmailSeq >>
         /\ UNCHANGED << cacheVars, lastVars, listVars, messageListValid, messageListCache, app >>

\* a.messageListValid = false, then IncrementMessageCount, and the call returns
SaveIncrement ==
  LET a == calls.save.area
  IN /\ calls.save.at = "created"
     /\ messageListValid' = [messageListValid EXCEPT ![a] = FALSE]
     /\ SetCache(IncrementMessageCount(Cache, Areas[a].areaID, IsNetmail(a)))
     /\ calls' = Saving("done", a)
     /\ op' = Op("SaveMsg", a, 0, TRUE)
     /\ UNCHANGED << dbVars, lastVars, listVars, messageListCache, app >>

\* Saves and invalidations one after another, then one RefreshMessageCounts
\* and one SaveMsg on the netmail area or an echo area, step by step.
NextRace ==
  \/ \E a \in ReadAreas, m \in Msgs :
       calls = NoCalls /\ echomailSeq + netmailSeq < MaxRaced - 1 /\ SaveMsg(a, m)
  \/ calls = NoCalls /\ InvalidateMessageCounts
  \/ calls = NoCalls /\ RefreshMessageCounts
  \/ RefreshQueryCounts
  \/ RefreshQueryNetmail
  \/ RefreshAssignCounts
  \/ RefreshAssignNetmail
  \/ RefreshSetValid
  \/ \E a \in ReadAreas, m \in Msgs : SaveCreate(a, m)
  \/ SaveIncrement

SpecRace == Init /\ [][NextRace]_vars

\* Route resolution alone: netmails of every kind are saved to the netmail area.

NextRoute ==
  \E m \in RouteMsgs : netmailSeq < MaxRouted /\ SaveMsg(NetmailIx, m)

SpecRoute == Init /\ [][NextRoute]_vars

\* Another application on the same database (README, "Multi-user support") adds a
\* row: to an echo area or to netmail. This process's caches do not see it.
ExternalInsert(a, m) ==
  /\ echomailSeq + netmailSeq < MaxRows
  /\ LET msg == MakeBody(m)
         kludges == msg.Kludges
     IN \E order \in KeyOrders(DOMAIN kludges) :
          IF IsNetmail(a)
          THEN /\ netmail' = Append(netmail,
                     NetmailRow(netmailSeq + 1, msg, kludges, order, findNetmailRoute(msg).via))
               /\ netmailSeq' = netmailSeq + 1
               /\ UNCHANGED << echomail, echomailSeq >>
          ELSE /\ echomail' = Append(echomail,
                     EchomailRow(a, echomailSeq + 1, msg, kludges, order))
               /\ echomailSeq' = echomailSeq + 1
               /\ UNCHANGED << netmail, netmailSeq >>
  /\ op' = Op("ExternalInsert", a, 0, TRUE)
  /\ UNCHANGED << echomailawait, cacheVars, lastVars, listVars, messageListValid, restVars >>

NextShared ==
  \/ NextStore
  \/ \E a \in AreaIx, m \in Msgs : ExternalInsert(a, m)

SpecShared == Init /\ [][NextShared]_vars

\* ------------------------------------------------------------ unread display

\* GetCount() - GetLast() as the area list, the area-list modal and the status
\* bar compute it: an unsigned 32-bit subtraction
UnreadShown(a) == Sub32(U32(GetCount(Store, a)), U32(GetLast(a)))

AreaHasUnreadMessages(a) == Gt32(Sub32(U32(GetCount(Store, a)), U32(GetLast(a))), U32(0))

\* ---------------------------------------------------------------- SortAreas

AreasSortingDefault == "default"
AreasSortingUnread == "unread"
validAreaSortModes == {AreasSortingDefault, AreasSortingUnread}

\* What the configuration may hold under sorting.areas: nothing, a valid mode or
\* another word.
SortingModes == {"", AreasSortingDefault, AreasSortingUnread, "name"}

\* The bytes of the area names, which strings.Compare compares.
Bytes(name) ==
  CASE name = "ECHO.ONE" -> <<69, 67, 72, 79, 46, 79, 78, 69>>
    [] name = "ECHO.TWO" -> <<69, 67, 72, 79, 46, 84, 87, 79>>
    [] name = "Netmail" -> <<78, 101, 116, 109, 97, 105, 108>>

RECURSIVE CompareBytes(_, _)
CompareBytes(x, y) ==
  IF x = <<>> THEN (IF y = <<>> THEN 0 ELSE -1)
  ELSE IF y = <<>> THEN 1
  ELSE IF x[1] < y[1] THEN -1
  ELSE IF x[1] > y[1] THEN 1
  ELSE CompareBytes(Tail(x), Tail(y))

stringsCompare(x, y) == CompareBytes(Bytes(x), Bytes(y))

\* cmp.Compare on EchoAreaType (uint8) and on uint32
cmpCompare(x, y) == IF x < y THEN -1 ELSE IF x > y THEN 1 ELSE 0
cmpCompare32(x, y) == IF Gt32(y, x) THEN -1 ELSE IF Gt32(x, y) THEN 1 ELSE 0

configMode ==
  IF sortingMode \in validAreaSortModes THEN sortingMode ELSE AreasSortingDefault

\* The comparison function SortAreas hands to slices.SortFunc.
SortFunc(a, b) ==
  LET aUnread == UnreadShown(a)
      bUnread == UnreadShown(b)
      byUnread == IF configMode = AreasSortingUnread
                  THEN cmpCompare32(bUnread, aUnread)
                  ELSE 0
      byType == cmpCompare(Areas[a].areaType, Areas[b].areaType)
  IN IF byUnread # 0 THEN byUnread
     ELSE IF byType # 0 THEN byType
     ELSE stringsCompare(Areas[a].areaName, Areas[b].areaName)

\* slices.SortFunc on a slice of at most twelve elements is an insertion sort:
\* element j moves down while it compares below its left neighbour.
RECURSIVE Sink(_, _)
Sink(data, j) ==
  IF j > 1 /\ SortFunc(data[j], data[j - 1]) < 0
  THEN Sink([data EXCEPT ![j] = data[j - 1], ![j - 1] = data[j]], j - 1)
  ELSE data

RECURSIVE insertionSort(_, _)
insertionSort(data, i) ==
  IF i > Len(data) THEN data ELSE insertionSort(Sink(data, i), i + 1)

SortAreas ==
  /\ areaOrder' = insertionSort(areaOrder, 2)
  /\ op' = Op("SortAreas", 0, 0, TRUE)
  /\ UNCHANGED << dbVars, cacheVars, lastVars, messageListValid, restVars, sortingMode >>

\* The area list: messages arrive, the first message of an area is deleted, the
\* reader moves, the list is sorted.
SortMsgs == {m \in Msgs : m.From = "Alice"}

InitSort == InitStore /\ LastReadDB = FALSE /\ sortingMode \in SortingModes

NextSort ==
  \/ \E a \in AreaIx, m \in SortMsgs :
       echomailSeq + netmailSeq < MaxSorted /\ SaveMsg(a, m)
  \/ \E a \in AreaIx : DelMsg(a, 1)
  \/ \E a \in AreaIx, p \in LastPositions : SetLast(a, p)
  \/ SortAreas

SpecSort == InitSort /\ [][NextSort]_vars

\* --------------------------------------------------------------- area list

\* refreshAreaListWithFilter with no search text: msgapi.Areas is sorted and
\* the table is filled again, one row for each area in the order of the slice.
RefreshAreaList ==
  /\ areaOrder' = insertionSort(areaOrder, 2)
  /\ app' = [app EXCEPT !.al = areaOrder']
  /\ op' = Op("RefreshAreaList", 0, 0, TRUE)
  /\ UNCHANGED << dbVars, cacheVars, lastVars, messageListValid, messageListCache, calls,
                  sortingMode >>

\* The Enter key on a row of the table: a.CurrentArea = &msgapi.Areas[row-1], a
\* pointer to the element of the slice, and Init of the area it denotes.
AreaListKeyEnter(row) ==
  /\ row \in DOMAIN app.al
  /\ row - 1 < Len(areaOrder)
  /\ app' = [app EXCEPT !.CurrentArea = row]
  /\ lastReadPosition' = [lastReadPosition EXCEPT ![areaOrder[row]] = 0]
  /\ messageListValid' = [messageListValid EXCEPT ![areaOrder[row]] = FALSE]
  /\ op' = Op("AreaList", areaOrder[row], 0, TRUE)
  /\ UNCHANGED << dbVars, cacheVars, LastReadDB, lastread, listVars, messageListCache,
                  calls >>

\* The area a.CurrentArea denotes now (0 when it is nil)
CurrentArea == IF app.CurrentArea = 0 THEN 0 ELSE areaOrder[app.CurrentArea]

\* The reader at the area list: messages arrive, the reader opens an area and
\* moves in it, the list is refreshed.
NextOpen ==
  \/ \E a \in AreaIx, m \in SortMsgs :
       echomailSeq + netmailSeq < MaxSorted /\ SaveMsg(a, m)
  \/ \E a \in AreaIx, p \in LastPositions : SetLast(a, p)
  \/ RefreshAreaList
  \/ \E row \in AreaIx : AreaListKeyEnter(row)

SpecOpen == InitSort /\ [][NextOpen]_vars

\* ------------------------------------------------------------ quote engine

\* A line is the sequence of its runes. The runes of the model: '>', the space,
\* the ideographic space U+3000 (three bytes), LF, CR, SOH (0x01), the letters
\* "a" and "e'" (U+00E9, two bytes), the digit "1" and the stop characters.
QuoteStops == {"<", "DQ", "'", "-"}
MaxQuoteLen == 40
ScanLimit == 11

WideSpace == "U+3000"
EAcute == "U+00E9"

IsQuoteChar(char) == char = ">"
IsSpace(char) == char \in {" ", WideSpace, LF, CR}
IsControl(char) == char \in {LF, CR, SOH}
IsLetter(char) == char \in {"A", "B", "a", "b", "e", "h", "l", "o", "p", "t", "x", EAcute}

\* The bytes of a rune in UTF-8, and len(s) of a string
RuneLen(char) == IF char = WideSpace THEN 3 ELSE IF char = EAcute THEN 2 ELSE 1

RECURSIVE ByteLen(_)
ByteLen(str) == IF str = <<>> THEN 0 ELSE RuneLen(Head(str)) + ByteLen(Tail(str))

\* n times the rune c
RECURSIVE Rep(_, _)
Rep(c, n) == IF n = 0 THEN <<>> ELSE <<c>> \o Rep(c, n - 1)

\* Indices count from 0 as in the code: runes[ptr] is line[ptr + 1].
RECURSIVE SkipSpace(_, _)
SkipSpace(runes, ptr) ==
  IF ptr < Len(runes) /\ (IsSpace(runes[ptr + 1]) \/ runes[ptr + 1] = LF)
  THEN SkipSpace(runes, ptr + 1)
  ELSE ptr

\* The scanning loop of IsQuoteBasic: where it stops, and whether it returned true.
RECURSIVE ScanBasic(_, _, _)
ScanBasic(runes, ptr, endPtr) ==
  IF ptr < Len(runes) /\ ptr < endPtr
  THEN IF IsQuoteChar(runes[ptr + 1]) THEN [ptr |-> ptr, found |-> TRUE]
       ELSE IF \/ IsControl(runes[ptr + 1])
               \/ runes[ptr + 1] \in QuoteStops
               \/ IsSpace(runes[ptr + 1])
            THEN [ptr |-> ptr, found |-> FALSE]
            ELSE ScanBasic(runes, ptr + 1, endPtr)
  ELSE [ptr |-> ptr, found |-> FALSE]

IsQuoteBasic(line) ==
  IF Len(line) = 0 THEN FALSE
  ELSE LET endPtr == IF Len(line) > ScanLimit THEN ScanLimit ELSE Len(line)
           ptr == SkipSpace(line, 0)
       IN IF ptr >= Len(line) \/ ptr >= endPtr THEN FALSE
          ELSE IF IsQuoteChar(line[ptr + 1]) THEN TRUE
          ELSE LET scan == ScanBasic(line, ptr, endPtr)
               IN \/ scan.found
                  \/ /\ scan.ptr < endPtr /\ scan.ptr < Len(line)
                     /\ IsQuoteChar(line[scan.ptr + 1])

\* The lines handed to IsQuoteBasic: leading spaces, letters, then nothing or
\* a character that ends the scan, then '>' or not, then text.
BasicLines ==
  { Rep(" ", km[1]) \o Rep("a", km[2]) \o mid \o q \o <<"a">> :
      km \in {p \in (0..MaxPad) \X (0..MaxPad) : p[1] + p[2] <= MaxPad},
      mid \in {<<>>, <<"-">>, <<LF>>}, q \in {<<>>, <<">">>} }
    \cup {<<>>, <<" ">>, <<LF, ">">>, <<WideSpace, EAcute, ">">>, <<SOH, ">">>}

IsQuoteBasicCall ==
  \E line \in BasicLines :
    /\ op' = Called("IsQuoteBasic", line, IsQuoteBasic(line))
    /\ UNCHANGED << dbVars, cacheVars, lastVars, listVars, messageListValid, restVars >>

SpecQuoteBasic == Init /\ [][IsQuoteBasicCall]_vars

\* strings.Contains(line, c) and strings.LastIndex(line, c) for one character
\* (0 when there is none, else the index from 1)
HasChar(line, c) == \E i \in DOMAIN line : line[i] = c
LastIndex(line, c) ==
  IF HasChar(line, c)
  THEN CHOOSE i \in DOMAIN line : line[i] = c /\ \A j \in DOMAIN line : line[j] = c => j <= i
  ELSE 0

\* An empty prevLines counts as no context at all.
checkPreviousLinesContext_EmptyIsFalse(prevLines) == prevLines # <<>>

\* The loop with no search for a '>' in the lines after the one with '<'.
RECURSIVE ContextFrom_NoLaterClose(_, _, _)
ContextFrom_NoLaterClose(prevLines, i, paragraph) ==
  IF i < 1 THEN TRUE
  ELSE LET line == prevLines[i]
           lastLT == LastIndex(line, "<")
       IN IF IsQuoteBasic(line) THEN TRUE
          ELSE IF Len(line) = 0 \/ line[1] = LF \/ line[1] = CR
               THEN paragraph \/ ContextFrom_NoLaterClose(prevLines, i - 1, TRUE)
          ELSE IF line[1] = SOH THEN TRUE
          ELSE IF lastLT # 0
               THEN HasChar(SubSeq(line, lastLT, Len(line)), ">")
          ELSE ContextFrom_NoLaterClose(prevLines, i - 1, paragraph)

\* The loop of checkPreviousLinesContext from line i (from 1) backward;
\* paragraph: a paragraph break was met already.
RECURSIVE ContextFrom(_, _, _)
ContextFrom(prevLines, i, paragraph) ==
  IF i < 1 THEN TRUE
  ELSE LET line == prevLines[i]
           lastLT == LastIndex(line, "<")
       IN IF IsQuoteBasic(line) THEN TRUE
          ELSE IF Len(line) = 0 \/ line[1] = LF \/ line[1] = CR
               THEN paragraph \/ ContextFrom(prevLines, i - 1, TRUE)
          ELSE IF line[1] = SOH THEN TRUE
          ELSE IF lastLT # 0
               THEN \/ HasChar(SubSeq(line, lastLT, Len(line)), ">")
                    \/ \E j \in (i + 1)..Len(prevLines) : HasChar(prevLines[j], ">")
          ELSE ContextFrom(prevLines, i - 1, paragraph)

checkPreviousLinesContext(prevLines) ==
  IF Len(prevLines) = 0 THEN TRUE ELSE ContextFrom(prevLines, Len(prevLines), FALSE)

\* The search of IsQuoteEnhanced for the first '>' from pos (from 0): where it
\* ends (one past the '>'), whether it found one, whether a stop character or a
\* line ending came first.
RECURSIVE FindQuote(_, _)
FindQuote(runes, pos) ==
  IF pos >= Len(runes) THEN [pos |-> pos, found |-> FALSE, stopped |-> FALSE]
  ELSE IF runes[pos + 1] = ">" THEN [pos |-> pos + 1, found |-> TRUE, stopped |-> FALSE]
  ELSE IF runes[pos + 1] \in QuoteStops \/ runes[pos + 1] = CR \/ runes[pos + 1] = LF
       THEN [pos |-> pos, found |-> FALSE, stopped |-> TRUE]
  ELSE FindQuote(runes, pos + 1)

\* IsQuoteEnhanced without the pattern of up to three letters before '>'.
IsQuoteEnhanced_NoPattern(line, prevLines) ==
  IF Len(line) = 0 THEN FALSE
  ELSE LET head == SkipSpace(line, 0)
           search == FindQuote(line, head)
       IN IF head >= Len(line) THEN FALSE
          ELSE IF search.stopped THEN TRUE
          ELSE IF ~search.found THEN FALSE
          ELSE IF search.pos < Len(line)
                    /\ IsQuoteBasic(SubSeq(line, search.pos + 1, Len(line)))
               THEN TRUE
          ELSE checkPreviousLinesContext(prevLines)

IsQuoteEnhanced(line, prevLines) ==
  IF Len(line) = 0 THEN FALSE
  ELSE LET head == SkipSpace(line, 0)
           search == FindQuote(line, head)
           pos == search.pos
           alphaCount == Cardinality({i \in head..(pos - 2) : IsLetter(line[i + 1])})
       IN IF head >= Len(line) THEN FALSE
          ELSE IF search.stopped THEN TRUE
          ELSE IF ~search.found THEN FALSE
          ELSE IF pos < Len(line) /\ IsQuoteBasic(SubSeq(line, pos + 1, Len(line)))
               THEN TRUE
          ELSE IF alphaCount < 4 /\ alphaCount = pos - 1 - head THEN TRUE
          ELSE checkPreviousLinesContext(prevLines)

\* The lines handed to IsQuoteEnhanced: the two lines of the examples, and
\* spaces, letters, '>' or not, then text or a second '>'.
BobHello == <<"B", "o", "b", ">", " ", "h", "e", "l", "l", "o">>
AlphabetX == <<"A", "l", "p", "h", "a", "b", "e", "t", ">", " ", "x">>

EnhancedLines ==
  { Rep(" ", k) \o Rep(c, m) \o q \o tail :
      k \in 0..1, c \in {"a", "1"}, m \in 0..MaxLetters, q \in {<<>>, <<">">>},
      tail \in {<<>>, <<" ", "x">>} }
    \cup {BobHello, AlphabetX, <<"a", "-", "b">>, <<"a", ">", ">", "x">>,
          <<WideSpace, EAcute, ">">>}

\* The lines before it: none, plain text, a quoted line, an opening '<' with
\* no '>' after it, one closed in a later line, a kludge, two paragraph breaks.
PrevLinesSets ==
  { <<>>,
    << <<"a", " ", "b">> >>,
    << <<">", " ", "a">>, <<"b">> >>,
    << <<"<", "a">>, <<"b">> >>,
    << <<"x", "<", "a">>, <<"b", ">">> >>,
    << <<SOH, "a">>, <<"b">> >>,
    << <<>>, <<"<", "a">>, <<>> >>,
    << <<>>, <<CR>>, <<"b">> >> }

IsQuoteEnhancedCall ==
  \E line \in EnhancedLines, prevLines \in PrevLinesSets :
    /\ op' = Called("IsQuoteEnhanced", [line |-> line, prevLines |-> prevLines],
                    IsQuoteEnhanced(line, prevLines))
    /\ UNCHANGED << dbVars, cacheVars, lastVars, listVars, messageListValid, restVars >>

SpecQuoteEnhanced == Init /\ [][IsQuoteEnhancedCall]_vars

\* The lines before a line that leaves the decision to the context check: up
\* to MaxPrev lines, each blank, plain text, quoted, one that opens a '<', or
\* text with a '>' that is no marker; and lines with a kludge, lines that
\* begin with a line ending, that close their '<', or open a second one after
\* closing one.
ContextLineKinds ==
  { <<>>, <<"a">>, <<">", "a">>, <<"<", "a">>, <<"a", "-", ">">> }

ContextPrevLines ==
  SeqsUpTo(ContextLineKinds, MaxPrev)
    \cup { << <<SOH, "a">> >>,
           << <<"<", "a">>, <<SOH, "a">> >>,
           << <<SOH, "a">>, <<"<", "a">> >>,
           << <<SOH, "a">>, <<>>, <<"a">> >>,
           << <<"<", "a", ">">> >>,
           << <<"<", "a", ">", "<", "b">> >>,
           << <<"<", "a", ">", "<", "b">>, <<"a", "-", ">">> >>,
           << <<LF>>, <<"<", "a">>, <<CR>> >>,
           << <<"<", "a">>, <<CR, "a">> >>,
           << <<"<", "a">>, <<LF>>, <<"a">>, <<CR>> >> }

IsQuoteEnhancedContextCall ==
  \E prevLines \in ContextPrevLines :
    /\ op' = Called("IsQuoteEnhanced", [line |-> AlphabetX, prevLines |-> prevLines],
                    IsQuoteEnhanced(AlphabetX, prevLines))
    /\ UNCHANGED << dbVars, cacheVars, lastVars, listVars, messageListValid, restVars >>

SpecContext == Init /\ [][IsQuoteEnhancedContextCall]_vars

\* The first '>' of runes at or after start (from 0), or Len(runes)
RECURSIVE FirstQuote(_, _)
FirstQuote(runes, start) ==
  IF start < Len(runes) /\ ~IsQuoteChar(runes[start + 1])
  THEN FirstQuote(runes, start + 1)
  ELSE start

\* The end of the run of '>' that begins at end
RECURSIVE EndOfQuotes(_, _)
EndOfQuotes(runes, end) ==
  IF end < Len(runes) /\ IsQuoteChar(runes[end + 1])
  THEN EndOfQuotes(runes, end + 1)
  ELSE end

\* The loop that copies runes[0..end) without line feeds while the result is
\* shorter than MaxQuoteLen - 1 bytes; bytes is result.Len(). It gives the
\* string and its length in bytes.
RECURSIVE ExtractQuote(_, _, _, _, _)
ExtractQuote(runes, i, end, result, bytes) ==
  IF i < end /\ bytes < MaxQuoteLen - 1
  THEN IF runes[i + 1] # LF
       THEN ExtractQuote(runes, i + 1, end, Append(result, runes[i + 1]),
                         bytes + RuneLen(runes[i + 1]))
       ELSE ExtractQuote(runes, i + 1, end, result, bytes)
  ELSE [marker |-> result, length |-> bytes]

\* The same loop with no limit on the length.
RECURSIVE ExtractAll(_, _, _, _, _)
ExtractAll(runes, i, end, result, bytes) ==
  IF i < end
  THEN IF runes[i + 1] # LF
       THEN ExtractAll(runes, i + 1, end, Append(result, runes[i + 1]),
                       bytes + RuneLen(runes[i + 1]))
       ELSE ExtractAll(runes, i + 1, end, result, bytes)
  ELSE [marker |-> result, length |-> bytes]

\* The marker ends with the run of '>': a space after it is left out.
GetQuoteString_NoSpace(line) ==
  LET end == EndOfQuotes(line, FirstQuote(line, SkipSpace(line, 0)))
  IN IF ~IsQuoteBasic(line) THEN [marker |-> <<>>, length |-> 0]
     ELSE ExtractQuote(line, 0, end, <<>>, 0)

\* The marker is copied whole.
GetQuoteString_NoCap(line) ==
  LET afterQuotes == EndOfQuotes(line, FirstQuote(line, SkipSpace(line, 0)))
      end == IF afterQuotes < Len(line) /\ IsSpace(line[afterQuotes + 1])
             THEN afterQuotes + 1 ELSE afterQuotes
  IN IF ~IsQuoteBasic(line) THEN [marker |-> <<>>, length |-> 0]
     ELSE ExtractAll(line, 0, end, <<>>, 0)

\* The marker and its length in bytes.
GetQuoteString(line) ==
  IF ~IsQuoteBasic(line) THEN [marker |-> <<>>, length |-> 0]
  ELSE LET start == FirstQuote(line, SkipSpace(line, 0))
           afterQuotes == EndOfQuotes(line, start)
           end == IF /\ afterQuotes < Len(line)
                     /\ (IsSpace(line[afterQuotes + 1]) \/ line[afterQuotes + 1] = LF)
                  THEN afterQuotes + 1
                  ELSE afterQuotes
       IN IF start >= Len(line) THEN [marker |-> <<>>, length |-> 0]
          ELSE ExtractQuote(line, 0, end, <<>>, 0)

\* The lines handed to GetQuoteString: the line of the example, and whitespace
\* of one or three bytes or line feeds, a letter of one or two bytes or none,
\* a run of '>' below, at and above the limit, then nothing, text or whitespace.
QuotedHi == <<">", " ", "h", "i">>

QuoteRuns == {0, 1} \cup ((MaxQuoteLen - 2)..MaxRun)

QuoteLines ==
  { lead \o name \o Rep(">", n) \o tail :
      lead \in {<<>>, <<" ", " ">>, <<WideSpace, WideSpace>>, <<" ", LF>>},
      name \in {<<>>, <<"a">>, <<EAcute>>},
      n \in QuoteRuns,
      tail \in {<<>>, <<" ", "x">>, <<WideSpace>>, <<LF, "x">>} }
    \cup {QuotedHi}

GetQuoteStringCall ==
  \E line \in QuoteLines :
    /\ op' = Called("GetQuoteString", line, GetQuoteString(line))
    /\ UNCHANGED << dbVars, cacheVars, lastVars, listVars, messageListValid, restVars >>

SpecQuoteString == Init /\ [][GetQuoteStringCall]_vars

ShouldEliminateQuote(line, cursorPos) ==
  LET quoteLen == GetQuoteString(line).length
      runeLen == Len(line)
  IN IF quoteLen = 0 THEN FALSE
     ELSE \/ cursorPos >= runeLen
          \/ cursorPos < runeLen /\ line[cursorPos + 1] = LF
          \/ cursorPos < quoteLen

\* The lines handed to ShouldEliminateQuote, with and without a marker, and
\* the cursor positions in and after them.
CursorLines ==
  { lead \o q \o tail :
      lead \in {<<>>, <<" ">>, <<"a">>, <<EAcute>>},
      q \in {<<>>, <<">">>, <<">", ">">>},
      tail \in {<<>>, <<" ", "x">>, <<"x", LF, "x">>} }

ShouldEliminateQuoteCall ==
  \E line \in CursorLines, cursorPos \in 0..MaxCursor :
    /\ op' = Called("ShouldEliminateQuote", [line |-> line, cursorPos |-> cursorPos],
                    ShouldEliminateQuote(line, cursorPos))
    /\ UNCHANGED << dbVars, cacheVars, lastVars, listVars, messageListValid, restVars >>

SpecEliminate == Init /\ [][ShouldEliminateQuoteCall]_vars

\* strings.Fields: the words between runs of whitespace
RECURSIVE Fields(_)
Fields(str) ==
  IF str = <<>> THEN <<>>
  ELSE IF IsSpace(str[1]) THEN Fields(Tail(str))
  ELSE LET n == IF \E i \in DOMAIN str : IsSpace(str[i])
                THEN (CHOOSE i \in DOMAIN str :
                        IsSpace(str[i]) /\ \A j \in 1..(i - 1) : ~IsSpace(str[j])) - 1
                ELSE Len(str)
       IN <<SubSeq(str, 1, n)>> \o Fields(SubSeq(str, n + 1, Len(str)))

\* line[n:], n counted in bytes
RECURSIVE DropBytes(_, _)
DropBytes(line, n) ==
  IF n <= 0 \/ line = <<>> THEN line ELSE DropBytes(Tail(line), n - RuneLen(line[1]))

\* The loop of wrapTextContent over the words from the i-th on.
RECURSIVE FillLines(_, _, _, _, _)
FillLines(words, i, maxWidth, currentLine, result) ==
  IF i > Len(words)
  THEN IF ByteLen(currentLine) > 0 THEN Append(result, currentLine) ELSE result
  ELSE IF ByteLen(currentLine) > 0 /\ ByteLen(currentLine) + 1 + ByteLen(words[i]) > maxWidth
       THEN FillLines(words, i + 1, maxWidth, words[i], Append(result, currentLine))
       ELSE FillLines(words, i + 1, maxWidth,
                      IF ByteLen(currentLine) > 0
                      THEN currentLine \o <<" ">> \o words[i]
                      ELSE words[i],
                      result)

wrapTextContent(content, maxWidth) ==
  IF Len(content) = 0 THEN << <<>> >>
  ELSE IF ByteLen(content) <= maxWidth THEN <<content>>
  ELSE FillLines(Fields(content), 1, maxWidth, <<>>, <<>>)

\* Only the first line of a wrapped line carries the marker.
WrapLine_BareContinuation(line, width, quotemargin) ==
  LET quote == GetQuoteString(line)
      margin == IF quote.length > 0 THEN quotemargin ELSE width
      wrappedContent == wrapTextContent(DropBytes(line, quote.length), margin - quote.length)
  IN IF Len(line) = 0 THEN << <<>> >>
     ELSE IF ByteLen(line) <= margin THEN <<line>>
     ELSE [i \in DOMAIN wrappedContent |->
             IF i = 1 THEN quote.marker \o wrappedContent[i] ELSE wrappedContent[i]]

\* The quote margin is the margin of every line, with a marker or without.
WrapLine_QuoteMarginOnly(line, width, quotemargin) ==
  LET quote == GetQuoteString(line)
      margin == quotemargin
      wrappedContent == wrapTextContent(DropBytes(line, quote.length), margin - quote.length)
  IN IF Len(line) = 0 THEN << <<>> >>
     ELSE IF ByteLen(line) <= margin THEN <<line>>
     ELSE [i \in DOMAIN wrappedContent |-> quote.marker \o wrappedContent[i]]

\* The lines WordWrapQuoteAware appends for one line of the text.
WrapLine(line, width, quotemargin) ==
  LET quote == GetQuoteString(line)
      margin == IF quote.length > 0 THEN quotemargin ELSE width
      wrappedContent == wrapTextContent(DropBytes(line, quote.length), margin - quote.length)
  IN IF Len(line) = 0 THEN << <<>> >>
     ELSE IF ByteLen(line) <= margin THEN <<line>>
     ELSE [i \in DOMAIN wrappedContent |-> quote.marker \o wrappedContent[i]]

RECURSIVE WrapLines(_, _, _)
WrapLines(inputLines, width, quotemargin) ==
  IF inputLines = <<>> THEN <<>>
  ELSE WrapLine(Head(inputLines), width, quotemargin)
         \o WrapLines(Tail(inputLines), width, quotemargin)

WordWrapQuoteAware(text, width, quotemargin) ==
  IF Len(text) = 0 THEN << <<>> >> ELSE WrapLines(Split(text, LF), width, quotemargin)

\* The texts handed to WordWrapQuoteAware: one of two markers, then words
\* and spaces; a text of three lines, one with letters of two bytes, one with
\* no marker that is longer than the width, two short ones with no marker.
\* The widths are those of a narrow screen.
WrapMarkers == {<<">", " ">>, <<"a", ">">>}

WrapTexts ==
  { marker \o content : marker \in WrapMarkers,
                        content \in SeqsUpTo({"x", " "}, MaxContent) }
    \cup { <<">", " ", "x", "x", " ", "x", "x", LF, "x", LF, ">", " ", "x">>,
           <<">", " ", EAcute, EAcute, " ", EAcute, " ", "x">>,
           <<">", ">", " ", "x", "x", " ", "x">>,
           <<"x", " ", "x", "x", " ", "x", "x", "x", "x">>, <<"x">>, <<>>,
           <<"x", LF, "x">>, <<"x", "x", " ", "x", "x">> }

WrapWidths == { [width |-> 8, quotemargin |-> 4], [width |-> 8, quotemargin |-> 6] }

WordWrapQuoteAwareCall ==
  \E text \in WrapTexts, w \in WrapWidths :
    /\ op' = Called("WordWrapQuoteAware",
                    [text |-> text, width |-> w.width, quotemargin |-> w.quotemargin],
                    WordWrapQuoteAware(text, w.width, w.quotemargin))
    /\ UNCHANGED << dbVars, cacheVars, lastVars, listVars, messageListValid, restVars >>

SpecWrap == Init /\ [][WordWrapQuoteAwareCall]_vars

\* ------------------------------------------------------------ area loading

\* The names an echoarea table may hold (the column is unique), and the tables
\* of up to MaxAreas rows: the ids are the table's own, not the place in the list.
EchoareaNames == {"ECHO.ONE", "ECHO.TWO", "Netmail", "BadMail", "Dupe"}

EchoareaTables ==
  { [i \in DOMAIN names |-> [ID |-> 2 * i, Name |-> names[i]]] :
      names \in {t \in SeqsUpTo(EchoareaNames, MaxAreas) :
                   \A i \in DOMAIN t, j \in DOMAIN t : t[i] = t[j] => i = j} }

\* jnodeConfigRead on a database with the given echoarea table: msgapi.Areas
\* as it leaves it.
jnodeConfigRead ==
  \E echoareas \in EchoareaTables :
    /\ op' = Called("jnodeConfigRead", echoareas, loadEchoareas(echoareas) \o loadNetmailArea)
    /\ UNCHANGED << dbVars, cacheVars, lastVars, listVars, messageListValid, restVars >>

SpecLoad == Init /\ [][jnodeConfigRead]_vars

\* ------------------------------------------------------------ line endings

\* The bodies handed to the line-ending functions: text, carriage returns and
\* line feeds in every arrangement.
Bodies == SeqsUpTo({"a", CR, LF}, MaxBody)

NormalizeForStorageCall ==
  \E body \in Bodies :
    /\ op' = Called("NormalizeForStorage", body, NormalizeForStorage(body))
    /\ UNCHANGED << dbVars, cacheVars, lastVars, listVars, messageListValid, restVars >>

NormalizeFromStorageCall ==
  \E body \in Bodies :
    /\ op' = Called("NormalizeFromStorage", body, NormalizeFromStorage(body))
    /\ UNCHANGED << dbVars, cacheVars, lastVars, listVars, messageListValid, restVars >>

NextNormalize == NormalizeForStorageCall \/ NormalizeFromStorageCall

SpecNormalize == Init /\ [][NextNormalize]_vars

\* -------------------------------------------------------------- FilterAreas

\* The search strings typed into the area list, as bytes: letters of both cases
\* and a full stop, up to two of them.
SearchBytes == {69, 101, 111, 46, 84, 110}
SearchTexts ==
  {<<>>} \cup {<<c>> : c \in SearchBytes} \cup {<<c, d>> : c \in SearchBytes, d \in SearchBytes}

\* strings.ToLower on names in ASCII
ToLowerByte(c) == IF c \in 65..90 THEN c + 32 ELSE c
ToLower(str) == [i \in DOMAIN str |-> ToLowerByte(str[i])]

\* strings.Contains
Contains(str, substr) ==
  \E off \in 0..(Len(str) - Len(substr)) : SubSeq(str, off + 1, off + Len(substr)) = substr

\* FilterAreas without the lowering of either string.
FilterAreas_CaseSensitive(searchText) ==
  SelectSeq([i \in 1..Len(areaOrder) |-> [area |-> areaOrder[i], OriginalIndex |-> i - 1]],
            LAMBDA f : Contains(Bytes(Areas[f.area].areaName), searchText))

\* OriginalIndex is the index in msgapi.Areas, which Go counts from 0.
FilterAreas(searchText) ==
  LET all == [i \in 1..Len(areaOrder) |-> [area |-> areaOrder[i], OriginalIndex |-> i - 1]]
  IN IF searchText = <<>>
     THEN all
     ELSE SelectSeq(all, LAMBDA f : Contains(ToLower(Bytes(Areas[f.area].areaName)),
                                             ToLower(searchText)))

FilterAreasCall ==
  \E searchText \in SearchTexts :
    /\ op' = Called("FilterAreas", searchText, FilterAreas(searchText))
    /\ UNCHANGED << dbVars, cacheVars, lastVars, listVars, messageListValid, restVars >>

\* The area list is sorted and searched while the reader moves.
NextFilter ==
  \/ \E a \in ReadAreas, p \in LastPositions : SetLast(a, p)
  \/ SortAreas
  \/ FilterAreasCall

SpecFilter == InitSort /\ [][NextFilter]_vars

\* ================================================================== claims

NotFound == [msg |-> <<>>, err |-> FALSE]

\* A GetMsg outcome read at position j with the count max: the position and
\* the count are recomputed at each read, the rest is the stored message.
Renumbered(res, j, max) ==
  IF Len(res.msg) = 0 THEN res
  ELSE [res EXCEPT !.msg = << [res.msg[1] EXCEPT !.MsgNum = j, !.MaxNum = max] >>]

\* C1: after DelMsg(k) succeeds on an area, GetMsg(j) returns for j < k what it
\* returned before, and for j >= k what GetMsg(j+1) returned before (renumbered
\* to position j): the positions stay contiguous.
C1_DelMsgShiftsDown ==
  [][\A a \in AreaIx, k \in 1..MaxRows :
       (op'.name = "DelMsg" /\ op'.ok /\ op'.area = a /\ op'.pos = k) =>
         \A j \in 1..(MaxRows + 1) :
           GetMsg(Store', a, j) =
             Renumbered(GetMsg(Store, a, IF j < k THEN j ELSE j + 1), j,
                        GetCount(Store', a))]_vars

\* A delete at position 2 that left a message before it and one after it.
C1_Witness ==
  /\ op.name = "DelMsg" /\ op.ok /\ op.pos = 2
  /\ Len(AreaRows(Store, op.area)) = 2
  /\ GetMsg(Store, op.area, 1)
       # Renumbered(GetMsg(Store, op.area, 2), 1, GetCount(Store, op.area))

\* C2: in every state GetMsg(0) returns what GetMsg(1) returns: the message at
\* position 1, numbered 1, or the same not-found outcome.
C2_GetMsgZeroIsOne ==
  \A a \in AreaIx :
    /\ GetMsg(Store, a, 0) = GetMsg(Store, a, 1)
    /\ Len(GetMsg(Store, a, 0).msg) = 1 => GetMsg(Store, a, 0).msg[1].MsgNum = 1

\* An area with a message, read at position 0, beside an empty area.
C2_Witness ==
  \E a, b \in AreaIx :
    /\ Len(GetMsg(Store, a, 0).msg) = 1 /\ GetMsg(Store, a, 0).msg[1].MsgNum = 1
    /\ GetMsg(Store, b, 0) = NotFound

Content(msg) ==
  [From |-> msg.From, To |-> msg.To, Subject |-> msg.Subject,
   Body |-> NormalizeForStorage(msg.Body),
   Attrs |-> {msg.Attrs[i] : i \in 1..Len(msg.Attrs)}]

\* C4: after SaveMsg(m) succeeds on an area, GetMsg at position GetCount()
\* returns a message whose From, To, Subject, Body and Attrs are those of m,
\* up to line endings, whatever saves and deletes came before.
C4_RoundTrip ==
  [][\A a \in AreaIx :
       (op'.name = "SaveMsg" /\ op'.ok /\ op'.area = a) =>
         LET res == GetMsg(Store', a, GetCount(Store', a))
         IN /\ Len(res.msg) = 1
            /\ Content(res.msg[1]) = Content(op'.msg[1])]_vars

\* C5: every message GetMsg returns has 1 <= MsgNum <= MaxNum, MaxNum being
\* the area's GetCount() at the read, also when another application has added
\* rows to the database.
C5_MsgNumWithinMaxNum ==
  \A a \in AreaIx, p \in Positions :
    LET res == GetMsg(Store, a, p)
    IN Len(res.msg) = 1 =>
         /\ 1 <= res.msg[1].MsgNum
         /\ res.msg[1].MsgNum <= res.msg[1].MaxNum
         /\ res.msg[1].MaxNum = GetCount(Store, a)

\* C6: in every state GetLast() <= GetCount() for every area, and an area
\* that holds no messages has GetCount() = 0 and GetLast() = 0.
C6_LastWithinCount ==
  \A a \in AreaIx :
    /\ GetLast(a) <= GetCount(Store, a)
    /\ Len(AreaRows(Store, a)) = 0 => (GetCount(Store, a) = 0 /\ GetLast(a) = 0)

Clamped(count, last) == IF count > last THEN count - last ELSE 0

\* C7: the unread figure shown for an area is max(0, GetCount() - GetLast())
\* and AreaHasUnreadMessages holds exactly when GetCount() > GetLast(), also
\* when GetLast() > GetCount(): the 32-bit subtraction does not wrap.
C7_UnreadClamped ==
  \A a \in AreaIx :
    /\ UnreadShown(a) = U32(Clamped(GetCount(Store, a), GetLast(a)))
    /\ AreaHasUnreadMessages(a) <=> GetCount(Store, a) > GetLast(a)

\* C8: while the count cache is valid, a step other than a refresh or an
\* invalidation keeps it valid, and changes GetCount() only by adding one to
\* the area a successful SaveMsg was made on: no other counter moves, and
\* DelMsg moves none.
C8_SaveAddsOne ==
  [][(countCacheValid
        /\ op'.name \notin {"RefreshMessageCounts", "InvalidateMessageCounts"}) =>
       /\ countCacheValid'
       /\ \A b \in AreaIx :
            GetCount(Store', b) =
              GetCount(Store, b)
                + (IF op'.name = "SaveMsg" /\ op'.ok /\ op'.area = b THEN 1 ELSE 0)]_vars

\* A save counted on top of a count that a delete had left untouched.
C8_Witness ==
  \E a, b \in AreaIx :
    /\ op.name = "SaveMsg" /\ op.ok /\ op.area = a /\ countCacheValid
    /\ GetCount(Store, a) = Len(AreaRows(Store, a)) + 1
    /\ a # b /\ GetCount(Store, b) = 1

\* The area ids an increment can be called with (0 stands for netmail).
AreaIDs == {Areas[a].areaID : a \in AreaIx}

\* C9: while the count cache is invalid it holds no counters, GetCount()
\* answers with the direct count of the area's rows, an increment leaves the
\* cache as it is, and so a save leaves it invalid and empty.
C9_InvalidCacheUntouched ==
  /\ [](~countCacheValid =>
          /\ messageCountCache = <<>> /\ netmailCountCache = 0
          /\ \A a \in AreaIx : GetCount(Store, a) = Len(AreaRows(Store, a))
          /\ \A id \in AreaIDs, isNetmail \in BOOLEAN :
               IncrementMessageCount(Cache, id, isNetmail) = Cache)
  /\ [][(~countCacheValid /\ op'.name = "SaveMsg") =>
          (~countCacheValid' /\ UNCHANGED cacheVars)]_vars

\* An invalid cache after successful saves to an echo area and to netmail.
C9_Witness ==
  /\ ~countCacheValid /\ op.name = "SaveMsg" /\ op.ok
  /\ Len(echomail) >= 1 /\ Len(netmail) >= 1

\* C10: right after a successful RefreshMessageCounts the cache is valid and
\* GetCount() of every area is the number of that area's own rows: echomail
\* rows of the area for an echo area (0 when it has none), netmail rows for
\* the netmail area.
C10_RefreshMatchesDirect ==
  (op.name = "RefreshMessageCounts" /\ op.ok) =>
    /\ countCacheValid
    /\ \A a \in AreaIx :
         /\ GetCount(Store, a) = DirectCount(Store, a)
         /\ GetCount(Store, a) =
              IF IsNetmail(a) THEN Len(netmail)
              ELSE Cardinality({i \in 1..Len(echomail) :
                                  echomail[i].EchoareaID = Areas[a].areaID})

\* A refresh over an echo area with rows, an echo area with none, and netmail.
C10_Witness ==
  /\ op.name = "RefreshMessageCounts" /\ op.ok
  /\ \E a, b, n \in AreaIx :
       /\ ~IsNetmail(a) /\ GetCount(Store, a) >= 1
       /\ ~IsNetmail(b) /\ GetCount(Store, b) = 0
       /\ Areas[b].areaID \notin DOMAIN messageCountCache
       /\ IsNetmail(n) /\ GetCount(Store, n) >= 1

\* ----------------------------------------------------------------- routing

\* The state right after a successful SaveMsg of a netmail.
NetmailSaved == op.name = "SaveMsg" /\ op.ok /\ op.area = NetmailIx

\* The row that save inserted.
NewNetmail == netmail[Len(netmail)]

\* The links at the destination itself, and at its boss node.
ExactLinks(m) == {l \in LinksTable : l.FtnAddress = AddrString(m.ToAddr)}

BossLinks(m) ==
  {l \in LinksTable : l.FtnAddress = <<m.ToAddr.Zone, m.ToAddr.Net, m.ToAddr.Node>>}

\* The rules of the routing table that fit a message on every field.
Fits(r, m) ==
  /\ r.FromAddress \in {AddrString(m.FromAddr), AnyAddr}
  /\ r.ToAddress \in {AddrString(m.ToAddr), AnyAddr}
  /\ r.FromName \in {m.From, "*"}
  /\ r.ToName \in {m.To, "*"}
  /\ r.Subject \in {m.Subject, "*"}

FittingRules(m) == {r \in RoutingTable : Fits(r, m)}

\* C11: a netmail whose destination, point included, is the address of a link
\* resolves to the direct (null) route with no error, whatever boss-node link
\* and routing rules also match; the saved row carries the null route.
C11_ExactLinkIsDirect ==
  (NetmailSaved /\ ExactLinks(op.msg[1]) # {}) =>
    /\ findNetmailRoute(op.msg[1]) = [via |-> <<>>, err |-> FALSE]
    /\ NewNetmail.RouteVia = <<>>
    /\ ~op.warned

\* A netmail to a linked point whose boss node is linked too and which a rule fits.
C11_Witness ==
  /\ NetmailSaved /\ ExactLinks(op.msg[1]) # {}
  /\ op.msg[1].ToAddr.Point # 0 /\ BossLinks(op.msg[1]) # {}
  /\ FittingRules(op.msg[1]) # {}
  /\ NewNetmail.RouteVia = <<>>

\* The boss-node step applies: no link at the destination, a point, a linked boss.
ViaBoss(m) == ExactLinks(m) = {} /\ m.ToAddr.Point # 0 /\ BossLinks(m) # {}

\* C12: a netmail to a point with no link of its own whose boss node has a link
\* resolves to that link's id, also when a routing rule of any priority fits.
C12_BossLinkRoutes ==
  (NetmailSaved /\ ViaBoss(op.msg[1])) =>
    \E l \in BossLinks(op.msg[1]) :
      /\ findNetmailRoute(op.msg[1]) = [via |-> <<l.ID>>, err |-> FALSE]
      /\ NewNetmail.RouteVia = <<l.ID>>
      /\ ~op.warned

\* A netmail routed by its boss link although a rule leading elsewhere fits.
C12_Witness ==
  /\ NetmailSaved /\ ViaBoss(op.msg[1])
  /\ \E r \in FittingRules(op.msg[1]) : <<r.RouteVia>> # NewNetmail.RouteVia
  /\ Len(NewNetmail.RouteVia) = 1

\* The fitting rules of least nice.
BestRules(m) == {r \in FittingRules(m) : \A q \in FittingRules(m) : r.Nice <= q.Nice}

\* C13: when neither the destination nor its boss node has a link and some
\* rule fits the message on every field, the route is the route_via of a
\* fitting rule of least nice.
C13_LeastNiceRuleRoutes ==
  (NetmailSaved /\ ExactLinks(op.msg[1]) = {} /\ ~ViaBoss(op.msg[1])
     /\ FittingRules(op.msg[1]) # {}) =>
    \E r \in BestRules(op.msg[1]) :
      /\ findNetmailRoute(op.msg[1]) = [via |-> <<r.RouteVia>>, err |-> FALSE]
      /\ NewNetmail.RouteVia = <<r.RouteVia>>
      /\ ~op.warned

\* Two fitting rules leading to different links, the better one later in the
\* table, beside a rule of lesser nice that does not fit.
C13_Witness ==
  /\ NetmailSaved /\ ExactLinks(op.msg[1]) = {} /\ ~ViaBoss(op.msg[1])
  /\ \E r \in BestRules(op.msg[1]), q \in FittingRules(op.msg[1]) :
       /\ q.Nice > r.Nice /\ q.ID < r.ID /\ q.RouteVia # r.RouteVia
       /\ NewNetmail.RouteVia = <<r.RouteVia>>
  /\ \E x \in RoutingTable \ FittingRules(op.msg[1]) :
       \A r \in FittingRules(op.msg[1]) : x.Nice < r.Nice

\* No link and no rule applies.
NoRoute(m) == ExactLinks(m) = {} /\ ~ViaBoss(m) /\ FittingRules(m) = {}

\* C14: for a netmail that no link and no rule matches, route resolution
\* reports the no-route error and SaveMsg can still succeed; when it does, the
\* row is inserted with a null route_via and send = false, the netmail count
\* goes up by one and the message-list cache is invalid.
C14_UnroutedStillSaved ==
  /\ [](\A m \in RouteMsgs :
          NoRoute(m) =>
            /\ findNetmailRoute(m) = [via |-> <<>>, err |-> TRUE]
            /\ netmailSeq < MaxRouted => ENABLED (SaveMsg(NetmailIx, m) /\ op'.ok))
  /\ [][(NetmailSaved' /\ NoRoute(op'.msg[1])) =>
          /\ op'.warned
          /\ Len(netmail') = Len(netmail) + 1
          /\ NewNetmail'.RouteVia = <<>> /\ NewNetmail'.Send = FALSE
          /\ NewNetmail'.Subject = op'.msg[1].Subject
          /\ GetCount(Store', NetmailIx) = GetCount(Store, NetmailIx) + 1
          /\ countCacheValid => netmailCountCache' = netmailCountCache + 1
          /\ ~messageListValid'[NetmailIx]]_vars

\* An unrouted netmail saved under a valid count cache.
C14_Witness ==
  /\ NetmailSaved /\ NoRoute(op.msg[1]) /\ op.warned
  /\ countCacheValid /\ netmailCountCache = 1
  /\ NewNetmail.RouteVia = <<>>

\* ----------------------------------------------------------------- fan-out

\* The links subscribed to an area.
Subscribers(a) ==
  {sub.LinkID : sub \in {x \in SubscriptionTable : x.EchoareaID = Areas[a].areaID}}

\* A step that is a successful SaveMsg on echo area a.
EchoSaved(a) == op'.name = "SaveMsg" /\ op'.ok /\ op'.area = a /\ ~IsNetmail(a)

\* The id of the echomail row the step inserted.
NewEchomailID == echomail'[Len(echomail')].ID

\* C15: a successful SaveMsg on an echo area whose fan-out succeeds adds to the
\* outbound queue one row (link, new message id) for each link subscribed to
\* the area, and nothing else: no row for another link or another message.
C15_FanOutPerSubscriber ==
  [][\A a \in AreaIx :
       (EchoSaved(a) /\ ~op'.warned) =>
         /\ echomailawait' =
              echomailawait \cup
                {[LinkID |-> l, EchomailID |-> NewEchomailID] : l \in Subscribers(a)}
         /\ \A row \in echomailawait : row.EchomailID # NewEchomailID]_vars

\* A second message fanned out to the two subscribers of an area, a third link
\* being subscribed to nothing.
C15_Witness ==
  /\ op.name = "SaveMsg" /\ op.ok /\ ~op.warned /\ ~IsNetmail(op.area)
  /\ Cardinality(Subscribers(op.area)) = 2
  /\ Cardinality(echomailawait) = 4
  /\ \E l \in LinksTable : \A row \in echomailawait : row.LinkID # l.ID

\* C16: SaveMsg reports success whenever the echomail row was inserted; when
\* the fan-out then fails, the row stays in the area, nothing is queued, the
\* area's count goes up by one (the cached counter while the cache is valid)
\* and the message-list cache is invalid.
C16_FanOutFailureKeepsMessage ==
  [][/\ (op'.name = "SaveMsg" /\ Len(echomail') > Len(echomail)) => op'.ok
     /\ \A a \in AreaIx :
          (EchoSaved(a) /\ op'.warned) =>
            /\ Len(AreaRows(Store', a)) = Len(AreaRows(Store, a)) + 1
            /\ echomail'[Len(echomail')].Subject = op'.msg[1].Subject
            /\ echomail'[Len(echomail')].EchoareaID = Areas[a].areaID
            /\ echomailawait' = echomailawait
            /\ GetCount(Store', a) = GetCount(Store, a) + 1
            /\ countCacheValid =>
                 messageCountCache'[Areas[a].areaID] = GetCount(Store, a) + 1
            /\ ~messageListValid'[a]]_vars

\* A message kept in an area with subscribers after its fan-out failed.
C16_Witness ==
  /\ op.name = "SaveMsg" /\ op.ok /\ op.warned /\ ~IsNetmail(op.area)
  /\ Subscribers(op.area) # {} /\ echomailawait = {}
  /\ countCacheValid /\ GetCount(Store, op.area) = 1
  /\ Len(AreaRows(Store, op.area)) = 1

\* --------------------------------------------------------------- last read

\* C17: GetLast() called after SetLast(p) returns p, whether the lastread store
\* is not configured, works, or fails on either call.
C17_GetLastAfterSetLast ==
  [][\A a \in AreaIx, p \in LastPositions :
       (op'.name = "SetLast" /\ op'.area = a /\ op'.pos = p) =>
         \A readFails \in BOOLEAN : GetLastWhen(a, readFails)' = p]_vars

\* A step in which SetLast on area a wrote its position to the lastread store.
Stored(a) == op'.name = "SetLast" /\ op'.area = a /\ LastReadDB /\ ~op'.warned

\* C18: the lastread store holds at most one record per (user, area); a
\* SetLastRead(user, area, p) raises the pair's high-water mark to p if p is
\* larger and leaves it otherwise, and nothing else changes a mark: the mark is
\* the maximum of the positions passed and never decreases.
C18_HighWaterMark ==
  /\ [](\A i, j \in DOMAIN lastread :
          (lastread[i].Username = lastread[j].Username
             /\ lastread[i].AreaName = lastread[j].AreaName) => i = j)
  /\ [][\A a \in AreaIx :
          GetHighRead(Areas[a].areaName)' =
            IF Stored(a) /\ op'.pos > GetHighRead(Areas[a].areaName)
            THEN op'.pos
            ELSE GetHighRead(Areas[a].areaName)]_vars

\* A position below the mark was stored for an area, beside another area's record.
C18_Witness ==
  /\ LastReadDB /\ op.name = "SetLast" /\ ~op.warned
  /\ GetHighRead(Areas[op.area].areaName) > op.pos
  /\ GetLastRead(Areas[op.area].areaName) = op.pos
  /\ Len(lastread) >= 2

\* C19: across SetLast calls on an area the value GetLast() returns never
\* decreases.
C19_LastReadNeverDecreases ==
  [][\A a \in AreaIx :
       (op'.name = "SetLast" /\ op'.area = a) => GetLast(a)' >= GetLast(a)]_vars

\* The number of unread messages of an area: GetCount() - GetLast(), never
\* below zero.
Unread(a) == Clamped(GetCount(Store, a), GetLast(a))

\* The order the area list is to have between neighbours a and b.
InOrder(a, b) ==
  IF sortingMode = AreasSortingUnread /\ Unread(a) # Unread(b)
  THEN Unread(a) > Unread(b)
  ELSE IF Areas[a].areaType # Areas[b].areaType
       THEN Areas[a].areaType < Areas[b].areaType
       ELSE stringsCompare(Areas[a].areaName, Areas[b].areaName) <= 0

\* The list holds every area once.
IsPermutation == \A a \in AreaIx : Cardinality({i \in DOMAIN areaOrder : areaOrder[i] = a}) = 1

\* C20: after SortAreas the area list is a permutation of its previous contents
\* in which every neighbouring pair is ordered by unread count, descending (in
\* unread mode only), then by area type, then by name, both ascending; an
\* absent or unknown mode is the default mode.
C20_SortAreasOrders ==
  /\ DOMAIN areaOrder = AreaIx /\ IsPermutation
  /\ op.name = "SortAreas" =>
       \A i \in 1..(Len(areaOrder) - 1) : InOrder(areaOrder[i], areaOrder[i + 1])

\* The same order on the unread figure SortAreas computes, GetCount() - GetLast()
\* in 32 bits without a sign.
SortAreasOrdersAsComputed ==
  /\ DOMAIN areaOrder = AreaIx /\ IsPermutation
  /\ op.name = "SortAreas" =>
       \A i \in 1..(Len(areaOrder) - 1) :
         LET a == areaOrder[i]
             b == areaOrder[i + 1]
         IN IF sortingMode = AreasSortingUnread /\ UnreadShown(a) # UnreadShown(b)
            THEN Gt32(UnreadShown(a), UnreadShown(b))
            ELSE IF Areas[a].areaType # Areas[b].areaType
                 THEN Areas[a].areaType < Areas[b].areaType
                 ELSE stringsCompare(Areas[a].areaName, Areas[b].areaName) <= 0

\* C20 where no area's last-read position is above its count.
SortAreasOrdersWithinCount ==
  (\A a \in AreaIx : GetLast(a) <= GetCount(Store, a)) => C20_SortAreasOrders

\* Two bytes that are the same letter in either case, or the same byte.
EqualFold(c, d) ==
  \/ c = d
  \/ c \in 65..90 /\ d = c + 32
  \/ d \in 65..90 /\ c = d + 32

\* The name of area a contains str, the case of letters set aside.
NameContains(a, str) ==
  LET name == Bytes(Areas[a].areaName)
  IN \E off \in 0..(Len(name) - Len(str)) :
       \A k \in 1..Len(str) : EqualFold(name[off + k], str[k])

\* C21: FilterAreas(s) returns exactly the areas whose name contains s
\* case-insensitively, in registry order, each tagged with the index at which it
\* stands in the registry (from 0); for the empty string, every area.
C21_FilterAreasMatches ==
  op.name = "FilterAreas" =>
    LET s == op.arg
        r == op.result
    IN /\ \A k \in DOMAIN r :
            /\ r[k].OriginalIndex + 1 \in DOMAIN areaOrder
            /\ areaOrder[r[k].OriginalIndex + 1] = r[k].area
            /\ NameContains(r[k].area, s)
       /\ \A k \in DOMAIN r, l \in DOMAIN r :
            k < l => r[k].OriginalIndex < r[l].OriginalIndex
       /\ \A i \in DOMAIN areaOrder :
            NameContains(areaOrder[i], s) => \E k \in DOMAIN r : r[k].OriginalIndex = i - 1
       /\ s = <<>> =>
            r = [i \in 1..Len(areaOrder) |-> [area |-> areaOrder[i], OriginalIndex |-> i - 1]]

\* In a sorted list a search in lower case found the two echo areas, named in
\* upper case, and not the netmail area that stands before them.
C21_Witness ==
  /\ op.name = "FilterAreas" /\ op.arg = <<111, 46>>
  /\ Len(op.result) = 2 /\ op.result[1].OriginalIndex = 1
  /\ areaOrder # [i \in AreaIx |-> i]

\* C22: NormalizeForStorage(b) holds no carriage return and ends with exactly
\* one line feed, and applying it again changes nothing; NormalizeFromStorage
\* replaces every line feed by a carriage return and changes nothing else.
C22_LineEndings ==
  LET b == op.arg
      r == op.result
  IN /\ op.name = "NormalizeForStorage" =>
          /\ \A i \in DOMAIN r : r[i] # CR
          /\ Len(r) >= 1 /\ r[Len(r)] = LF
          /\ Len(r) >= 2 => r[Len(r) - 1] # LF
          /\ NormalizeForStorage(r) = r
     /\ op.name = "NormalizeFromStorage" =>
          /\ Len(r) = Len(b)
          /\ \A i \in DOMAIN b : r[i] = IF b[i] = LF THEN CR ELSE b[i]

\* A body with mixed line endings and several at its end was normalized.
C22_Witness ==
  /\ op.name = "NormalizeForStorage"
  /\ op.arg = <<"a", CR, LF, CR>> /\ op.result = <<"a", LF>>

\* The table whose rows an area reads and writes, and the echoarea id it selects
\* them by: every operation of SQLArea branches on areaType = EchoAreaTypeNetmail.
UsesEchomailOf(area, id) == area.areaType # EchoAreaTypeNetmail /\ area.areaID = id

\* C23: after the areas are loaded (the echo areas, then the synthetic netmail
\* area) no two areas of the registry have the same name, and every area
\* loaded from the echoarea table reads and writes the echomail rows of its own
\* echoarea id.
C23_LoadedAreasDistinct ==
  op.name = "jnodeConfigRead" =>
    LET echoareas == op.arg
        areas == op.result
    IN /\ \A i \in DOMAIN areas, j \in DOMAIN areas :
            areas[i].areaName = areas[j].areaName => i = j
       /\ \A i \in DOMAIN echoareas : UsesEchomailOf(areas[i], echoareas[i].ID)

\* C23 for the tables that hold no echo area named Netmail.
LoadedAreasDistinctButNetmail ==
  (\A i \in DOMAIN op.arg : op.arg[i].Name # "Netmail") => C23_LoadedAreasDistinct

\* A rune that ends the scan of IsQuoteBasic before a '>': a control character,
\* whitespace or a stop character.
EndsScan(char) == IsControl(char) \/ IsSpace(char) \/ char \in QuoteStops

\* The number of whitespace runes a line begins with.
LeadingSpace(line) ==
  CHOOSE k \in 0..Len(line) :
    /\ \A i \in 1..k : IsSpace(line[i])
    /\ k < Len(line) => ~IsSpace(line[k + 1])

\* C24: IsQuoteBasic(line) is true exactly when a '>' stands among the 11 runes
\* that follow the leading whitespace, with no control character, whitespace or
\* stop character between the whitespace and it.
C24_QuoteBasicScansEleven ==
  op.name = "IsQuoteBasic" =>
    LET line == op.arg
        k == LeadingSpace(line)
    IN op.result <=>
         \E q \in (k + 1)..(k + ScanLimit) :
           /\ q <= Len(line) /\ IsQuoteChar(line[q])
           /\ \A i \in (k + 1)..(q - 1) : ~EndsScan(line[i])

\* C24 for the lines that begin with no whitespace.
QuoteBasicScansElevenFromStart ==
  (op.name = "IsQuoteBasic" /\ LeadingSpace(op.arg) = 0) => C24_QuoteBasicScansEleven

\* A line of the form: whitespace, then up to three letters, then '>'.
ShortNamePattern(line) ==
  LET k == LeadingSpace(line)
  IN \E m \in 0..3 :
       /\ k + m + 1 <= Len(line)
       /\ \A i \in (k + 1)..(k + m) : IsLetter(line[i])
       /\ line[k + m + 1] = ">"

\* C25: a line of the form whitespace, 0 to 3 letters, '>' is quoted for every
\* prevLines, also those for which the context check answers false.
C25_ShortNameIsQuoted ==
  (op.name = "IsQuoteEnhanced" /\ ShortNamePattern(op.arg.line)) => op.result

\* "Bob> hello" after lines that open a '<' and never close it.
C25_Witness ==
  /\ op.name = "IsQuoteEnhanced" /\ op.arg.line = BobHello
  /\ ~checkPreviousLinesContext(op.arg.prevLines)
  /\ op.result

\* C26 as stated: IsQuoteEnhanced("Alphabet> x", []) is false.
C26_AlphabetNotQuoted ==
  (op.name = "IsQuoteEnhanced" /\ op.arg = [line |-> AlphabetX, prevLines |-> <<>>])
    => ~op.result

\* C26, amended: IsQuoteEnhanced("Alphabet> x", []) is true, because the
\* context check over an empty prevLines answers true; the line is not quoted
\* only after lines that open a '<' which no later line closes.
C26_AlphabetQuotedByDefault ==
  (op.name = "IsQuoteEnhanced" /\ op.arg.line = AlphabetX) =>
    /\ op.arg.prevLines = <<>> => op.result
    /\ op.result = checkPreviousLinesContext(op.arg.prevLines)

\* "Alphabet> x" was classified with no line before it.
C26_Witness ==
  op.name = "IsQuoteEnhanced" /\ op.arg = [line |-> AlphabetX, prevLines |-> <<>>] /\ op.result

\* C27 as stated: GetQuoteString("> hi") returns the marker ">" with length 1.
C27_MarkerOfQuotedHi ==
  (op.name = "GetQuoteString" /\ op.arg = QuotedHi) =>
    op.result = [marker |-> <<">">>, length |-> 1]

\* C27, amended: GetQuoteString("> hi") returns the marker "> ", the '>' and the
\* space after it, with length 2.
C27_MarkerWithSpace ==
  (op.name = "GetQuoteString" /\ op.arg = QuotedHi) =>
    op.result = [marker |-> <<">", " ">>, length |-> 2]

\* The marker of "> hi" was extracted.
C27_Witness ==
  op.name = "GetQuoteString" /\ op.arg = QuotedHi /\ op.result.length > 0

\* C28: the marker GetQuoteString returns has at most 39 runes and holds no
\* newline, also for a run of more than 39 '>' and for characters of several
\* bytes before the '>'; it is empty, with length 0, exactly when the line is
\* not quote-basic.
C28_MarkerIsCapped ==
  op.name = "GetQuoteString" =>
    /\ Len(op.result.marker) <= 39
    /\ \A i \in DOMAIN op.result.marker : op.result.marker[i] # LF
    /\ (op.result.marker = <<>>) <=> ~IsQuoteBasic(op.arg)
    /\ (op.result.length = 0) <=> ~IsQuoteBasic(op.arg)

\* A run of more than 39 '>' after a letter of two bytes gave a marker cut short.
C28_Witness ==
  /\ op.name = "GetQuoteString"
  /\ Len(op.arg) > 40 /\ op.arg[1] = EAcute
  /\ Len(op.result.marker) \in 1..39
  /\ Len(op.result.marker) < Len(op.arg) - 1

\* The runes of a line that its marker takes up (none when it has no marker).
MarkerSpan(line) == Len(GetQuoteString(line).marker)

\* C29: ShouldEliminateQuote(line, cursorPos) is true if the cursor is at or
\* after the end of the line, or points at a newline, or lies inside the marker
\* span, and false otherwise, for lines with and without a quote marker.
C29_EliminateByCursor ==
  op.name = "ShouldEliminateQuote" =>
    LET line == op.arg.line
        cursorPos == op.arg.cursorPos
    IN op.result <=>
         \/ cursorPos >= Len(line)
         \/ cursorPos < Len(line) /\ line[cursorPos + 1] = LF
         \/ cursorPos < MarkerSpan(line)

\* C29 for the lines that have a marker of one-byte characters.
EliminateByCursorInPlainMarker ==
  (/\ op.name = "ShouldEliminateQuote"
   /\ GetQuoteString(op.arg.line).length > 0
   /\ GetQuoteString(op.arg.line).length = MarkerSpan(op.arg.line))
    => C29_EliminateByCursor

\* A text of one line, which has a marker and is longer than the quote margin.
LongQuotedLine ==
  /\ op.name = "WordWrapQuoteAware"
  /\ ~HasChar(op.arg.text, LF)
  /\ GetQuoteString(op.arg.text).marker # <<>>
  /\ ByteLen(op.arg.text) > op.arg.quotemargin

\* C30: every line WordWrapQuoteAware produces for a quoted line longer than the
\* quote margin begins with the line's marker as it stands in the line, and
\* the text after the marker fits in quoteMargin minus the marker's length
\* unless it is a single word.
C30_WrapKeepsMarker ==
  LongQuotedLine =>
    LET marker == GetQuoteString(op.arg.text).marker
    IN \A i \in DOMAIN op.result :
         LET produced == op.result[i]
             rest == SubSeq(produced, Len(marker) + 1, Len(produced))
         IN /\ Len(produced) >= Len(marker)
            /\ SubSeq(produced, 1, Len(marker)) = marker
            /\ SubSeq(op.arg.text, 1, Len(marker)) = marker
            /\ \/ ByteLen(rest) <= op.arg.quotemargin - ByteLen(marker)
               \/ \A j \in DOMAIN rest : ~IsSpace(rest[j])

\* A quoted line was wrapped into several lines, one of them of two words.
C30_Witness ==
  /\ LongQuotedLine
  /\ Len(op.result) >= 2
  /\ \E i \in DOMAIN op.result :
       HasChar(SubSeq(op.result[i], 3, Len(op.result[i])), " ")

\* The margin of a line: the quote margin when it has a marker, else the width.
MarginOf(line, width, quotemargin) ==
  IF GetQuoteString(line).length > 0 THEN quotemargin ELSE width

FallsThrough(line) ==
  LET k == LeadingSpace(line)
  IN \E g \in (k + 1)..Len(line) :
       /\ line[g] = ">"
       /\ \A i \in (k + 1)..(g - 1) : line[i] \notin QuoteStops \cup {">", CR, LF}
       /\ ~IsQuoteBasic(SubSeq(line, g + 1, Len(line)))
       /\ ~(g - 1 - k < 4 /\ \A i \in (k + 1)..(g - 1) : IsLetter(line[i]))

\* The kinds of a line before: a paragraph break; a line that decides with
\* true; a line whose last '<' has no '>' after it (then every '<' of the line
\* that has no '>' after it is one such).
BlankLine(line) == ~IsQuoteBasic(line) /\ (line = <<>> \/ line[1] \in {LF, CR})
OpensCitation(line) ==
  /\ ~IsQuoteBasic(line) /\ ~BlankLine(line) /\ line[1] # SOH
  /\ \E i \in DOMAIN line :
       line[i] = "<" /\ \A j \in i..Len(line) : line[j] # ">"
DecidesTrue(line) ==
  \/ IsQuoteBasic(line)
  \/ ~BlankLine(line) /\ line[1] = SOH
  \/ ~BlankLine(line) /\ HasChar(line, "<") /\ ~OpensCitation(line)

\* Line i of prevLines is the first to decide, scanning from the last line
\* backward, and it opens a citation that no later line closes.
UnclosedCitationAt(prevLines, i) ==
  /\ OpensCitation(prevLines[i])
  /\ \A j \in (i + 1)..Len(prevLines) :
       /\ ~DecidesTrue(prevLines[j])
       /\ ~HasChar(prevLines[j], "<")
       /\ ~HasChar(prevLines[j], ">")
  /\ Cardinality({j \in (i + 1)..Len(prevLines) : BlankLine(prevLines[j])}) <= 1

\* C32: when IsQuoteEnhanced falls through to the context check, the result
\* is false exactly if, scanning prevLines from the most recent backward, the
\* first line that decides holds a '<' with no '>' after it in that line and
\* no '>' in any later line; a quote-basic line, a second blank line, a
\* kludge line, a '<' followed by '>', or exhausting prevLines (also an empty
\* prevLines) each give true.
C32_ContextDecides ==
  (op.name = "IsQuoteEnhanced" /\ FallsThrough(op.arg.line)) =>
    (~op.result <=>
       \E i \in DOMAIN op.arg.prevLines : UnclosedCitationAt(op.arg.prevLines, i))

\* The context check answered false past a paragraph break and a line of
\* plain text.
C32_Witness ==
  /\ op.name = "IsQuoteEnhanced" /\ FallsThrough(op.arg.line)
  /\ ~op.result
  /\ Len(op.arg.prevLines) = 3
  /\ UnclosedCitationAt(op.arg.prevLines, 1)
  /\ BlankLine(op.arg.prevLines[2])

\* C33: the length GetQuoteString returns is the number of runes of the
\* marker, also for lines with characters of several bytes before the '>', so
\* that ShouldEliminateQuote takes exactly the cursor positions within the
\* marker as inside it and WordWrapQuoteAware cuts the content right after
\* the marker.
C33_LengthInRunes ==
  /\ op.name = "GetQuoteString" => op.result.length = Len(op.result.marker)
  /\ (op.name = "ShouldEliminateQuote" /\ GetQuoteString(op.arg.line).length > 0) =>
       LET line == op.arg.line
           cursorPos == op.arg.cursorPos
       IN (cursorPos < Len(line) /\ line[cursorPos + 1] # LF) =>
            (op.result <=> cursorPos < MarkerSpan(line))
  /\ op.name = "WordWrapQuoteAware" =>
       \A i \in DOMAIN Split(op.arg.text, LF) :
         LET line == Split(op.arg.text, LF)[i]
             quote == GetQuoteString(line)
         IN DropBytes(line, quote.length) = SubSeq(line, Len(quote.marker) + 1, Len(line))

\* What the code returns: the length of the marker in bytes.
MarkerLengthInBytes ==
  op.name = "GetQuoteString" => op.result.length = ByteLen(op.result.marker)

\* C34: the text SaveMsg writes to the message column, the kludge block and
\* then the body, has line feeds as its only line separator: it holds no
\* carriage return, whatever the kludges of the message.
C34_StoredTextHasNoCR ==
  /\ \A i \in DOMAIN echomail : ~HasChar(echomail[i].Message, CR)
  /\ \A i \in DOMAIN netmail : ~HasChar(netmail[i].Text, CR)

\* What the code stores: a carriage return stands only at the end of a kludge
\* line of the block; the body after the block holds none.
StoredBodyHasNoCR ==
  LET KludgeEnds(text) ==
        \A i \in DOMAIN text :
          text[i] = CR => \E j \in 1..(i - 4) : text[j] = SOH /\ j + 4 = i
  IN /\ \A i \in DOMAIN echomail : KludgeEnds(echomail[i].Message)
     /\ \A i \in DOMAIN netmail : KludgeEnds(netmail[i].Text)

\* The headers of the messages stored in area a now, in the order they were
\* created, numbered 1..n.
Headers(a) ==
  LET rows == AreaRows(Store, a)
  IN [i \in 1..Len(rows) |->
        [MsgNum |-> i, From |-> rows[i].FromName, To |-> rows[i].ToName,
         Subject |-> rows[i].Subject]]

\* C35: after any sequence of SaveMsg, DelMsg, Init and GetMessages on one area
\* instance, GetMessages returns the headers of exactly the messages stored in
\* the area now, in ascending creation order and numbered 1..n without gaps: a
\* cached list is never returned after a mutation made through the instance,
\* and a list whose load failed is not kept as a valid (empty) cached list.
C35_GetMessagesIsCurrent ==
  /\ op.name = "GetMessages" => op.result = Headers(op.area)
  /\ \A a \in ReadAreas : messageListValid[a] => messageListCache[a] = Headers(a)

\* What the code keeps: a list that is valid is the current one, or the empty
\* list a failed load left.
ListIsCurrentOrEmpty ==
  /\ op.name = "GetMessages" => op.result \in {Headers(op.area), <<>>}
  /\ (op.name = "GetMessages" /\ ~op.warned /\ op.result = <<>>) =>
       \/ Headers(op.area) = <<>>
       \/ messageListValid[op.area] /\ messageListCache[op.area] = <<>>
  /\ \A a \in ReadAreas :
       messageListValid[a] => messageListCache[a] \in {Headers(a), <<>>}

\* Both calls have returned, and the save stored its row.
BothCompleted ==
  /\ calls.refresh.at = "done" /\ calls.save.at = "done"
  /\ calls.save.area # 0

\* C36: if a RefreshMessageCounts and a SaveMsg on the same area run at once,
\* in any interleaving of the refresh's count queries and cache assignment
\* with the save's row insert and cache increment, then once both have
\* completed the cached count of the area is the number of rows stored for it.
C36_CountAfterConcurrentSave ==
  (BothCompleted /\ countCacheValid) =>
    GetCount(Store, calls.save.area) = DirectCount(Store, calls.save.area)

\* What the code keeps: the count is right when one call ran after the other.
CountAfterSaveInTurn ==
  (BothCompleted /\ countCacheValid /\ ~calls.overlap) =>
    GetCount(Store, calls.save.area) = DirectCount(Store, calls.save.area)

\* C37: once an area has been opened from the area list, the application's
\* current-area reference keeps denoting that area across every later
\* RefreshAreaList / SortAreas, in both sort modes and whatever the unread
\* counts have become in between.
C37_CurrentAreaStays ==
  [][(app.CurrentArea # 0 /\ op'.name # "AreaList") => CurrentArea' = CurrentArea]_vars

\* What the code keeps: in the default mode the list the reader opened the
\* area from stays in its order, and the reference with it.
CurrentAreaStaysInDefaultMode ==
  [][(app.CurrentArea # 0 /\ op'.name # "AreaList" /\ configMode = AreasSortingDefault)
       => CurrentArea' = CurrentArea]_vars

\* C38: when no lastread store is configured, the position SetLast(p) stored
\* survives the re-opening of the area: after SetLast(p), a later Init() of the
\* area, as each time it is entered from the area list, and then GetLast()
\* still gives p.
C38_LastSurvivesInit ==
  [][\A a \in AreaIx :
       (~LastReadDB /\ op'.name = "Init" /\ op'.area = a) => GetLast(a)' = GetLast(a)]_vars

\* What the code keeps: with the lastread store configured Init leaves the
\* value of GetLast() as it is, and without it Init leaves 0.
LastSurvivesInitInStore ==
  [][\A a \in AreaIx :
       (op'.name = "Init" /\ op'.area = a) =>
         GetLast(a)' = IF LastReadDB THEN GetLast(a) ELSE 0]_vars

\* The words of lines, in order, the marker of each line set aside.
RECURSIVE WordsOf(_)
WordsOf(lines) ==
  IF lines = <<>> THEN <<>>
  ELSE Fields(DropBytes(Head(lines), GetQuoteString(Head(lines)).length))
         \o WordsOf(Tail(lines))

\* C39: WordWrapQuoteAware never loses a line or a word: for every text, width
\* and quoteMargin the output has at least one line for each line of the
\* input, also for a line longer than the margin that holds only whitespace
\* after its marker, and the words of the output, read in order with the
\* markers removed, are the words of the input in order.
C39_WrapLosesNothing ==
  op.name = "WordWrapQuoteAware" =>
    /\ Len(op.result) >= Len(Split(op.arg.text, LF))
    /\ WordsOf(op.result) = WordsOf(Split(op.arg.text, LF))

\* What the code keeps: the words, and a line for every line that holds a
\* word or fits its margin.
WrapKeepsWords ==
  op.name = "WordWrapQuoteAware" =>
    LET inputLines == Split(op.arg.text, LF)
    IN /\ WordsOf(op.result) = WordsOf(inputLines)
       /\ (\A i \in DOMAIN inputLines :
             \/ WordsOf(<<inputLines[i]>>) # <<>>
             \/ ByteLen(inputLines[i])
                  <= MarginOf(inputLines[i], op.arg.width, op.arg.quotemargin))
            => Len(op.result) >= Len(inputLines)

====
